---- MODULE Spec2Model ----
(***************************************************************************)
(* E-Commerce-Data-Analysis: the order-creation transaction, the id        *)
(* generator, the fixture loaders, the validators, two aggregation         *)
(* pipelines and the change-stream watcher of scripts/script.py, and the   *)
(* plot helper of notebook/utils/handle_plot.py.                           *)
(*                                                                         *)
(* Collections are sets of documents; a document is a record.  A BSON/JSON *)
(* scalar is a tuple: <<n>> is the integer n and <<>> is null (None), so   *)
(* that a missing id and an integer id can sit in the same field.          *)
(*                                                                         *)
(* The database (MongoDB through pymongo) is the environment.  What the    *)
(* model takes from it:                                                    *)
(*  - a write made with session=session stays private to that transaction *)
(*    until commit_transaction, which applies all of them at once;         *)
(*  - a read made without the session sees committed documents only;       *)
(*  - validators and unique indexes reject a write when it is made;        *)
(*  - any call to the server may raise (connection failure);  a commit     *)
(*    that raises may or may not have been applied;                        *)
(*  - ClientSession.commit_transaction leaves the session in state         *)
(*    COMMITTED even when it raises, and abort_transaction raises          *)
(*    InvalidOperation in that state.                                      *)
(***************************************************************************)
EXTENDS Integers, Sequences, FiniteSets, TLC

VARIABLES orders, order_items, products, customers, pc, loc, txn, hist,
          gen, load, conv, agg, plot, watch, setup

vars == <<orders, order_items, products, customers, pc, loc, txn, hist,
          gen, load, conv, agg, plot, watch, setup>>

\* The database and its callers; the state of the functions run on their own.
db == <<orders, order_items, products, customers, pc, loc, txn, hist>>
\* The pipelines, the plot helper, the change-stream watcher, the set-up cells.
aux == <<agg, plot, watch, setup>>
pure == <<gen, load, conv, aux>>

\* Bounds of the model.
MaxItems == 2
MaxCalls == 2
MaxConcItems == 1
MaxConcCalls == 1
MaxFixture == 2
MaxDocs == 2

Procs == {1, 2}

None == <<>>
Num(n) == <<n>>
IsNum(v) == Len(v) = 1

SetMax(S) == CHOOSE m \in S : \A n \in S : n <= m

(***************************************************************************)
(* datetime.strptime(s, "%Y-%m-%dT%H:%M:%SZ").  A string is a tuple of      *)
(* one-character strings.                                                  *)
(***************************************************************************)
Digits == <<"0", "1", "2", "3", "4", "5", "6", "7", "8", "9">>

IsDigit(c) == \E k \in 1..10 : Digits[k] = c

DigitVal(c) == (CHOOSE k \in 1..10 : Digits[k] = c) - 1

\* The run of at most w digits of s that starts at position pos.
RECURSIVE DigitRun(_, _, _)
DigitRun(s, pos, w) ==
    IF w = 0 \/ pos > Len(s) \/ ~IsDigit(s[pos]) THEN <<>>
    ELSE <<s[pos]>> \o DigitRun(s, pos + 1, w - 1)

RECURSIVE NumVal(_)
NumVal(ds) ==
    IF ds = <<>> THEN 0
    ELSE 10 * NumVal(SubSeq(ds, 1, Len(ds) - 1)) + DigitVal(ds[Len(ds)])

IsLeap(y) == (y % 4 = 0 /\ y % 100 # 0) \/ y % 400 = 0

DaysInMonth(y, m) ==
    IF m = 2 THEN (IF IsLeap(y) THEN 29 ELSE 28)
    ELSE IF m \in {4, 6, 9, 11} THEN 30 ELSE 31

ParseError == [ok |-> FALSE]

\* One directive followed by a literal: the digits (at least lo of them, at
\* most hi), then the character lit (the pattern is compiled IGNORECASE).
Field(s, pos, lo, hi, lit) ==
    LET ds == DigitRun(s, pos, hi)
        nxt == pos + Len(ds)
    IN  IF Len(ds) >= lo /\ nxt <= Len(s) /\ s[nxt] \in lit
        THEN [ok |-> TRUE, val |-> NumVal(ds), next |-> nxt + 1]
        ELSE ParseError

strptime(s) ==
    LET Y == Field(s, 1, 4, 4, {"-"}) IN
    IF ~Y.ok THEN ParseError ELSE
    LET m == Field(s, Y.next, 1, 2, {"-"}) IN
    IF ~m.ok THEN ParseError ELSE
    LET d == Field(s, m.next, 1, 2, {"T", "t"}) IN
    IF ~d.ok THEN ParseError ELSE
    LET H == Field(s, d.next, 1, 2, {":"}) IN
    IF ~H.ok THEN ParseError ELSE
    LET M == Field(s, H.next, 1, 2, {":"}) IN
    IF ~M.ok THEN ParseError ELSE
    LET S == Field(s, M.next, 1, 2, {"Z", "z"}) IN
    IF ~S.ok \/ S.next # Len(s) + 1 THEN ParseError ELSE
    IF /\ Y.val >= 1
       /\ m.val \in 1..12
       /\ d.val >= 1 /\ d.val <= DaysInMonth(Y.val, m.val)
       /\ H.val <= 23 /\ M.val <= 59 /\ S.val <= 59
    THEN [ok |-> TRUE,
          dt |-> [year |-> Y.val, month |-> m.val, day |-> d.val,
                  hour |-> H.val, minute |-> M.val, second |-> S.val]]
    ELSE ParseError

\* The date create_order writes on every order.
OrderDateString ==
    <<"2", "0", "2", "4", "-", "1", "2", "-", "2", "2", "T",
      "1", "0", ":", "0", "0", ":", "0", "0", "Z">>

OrderDate == strptime(OrderDateString)

(***************************************************************************)
(* Validators and indexes.                                                 *)
(***************************************************************************)
StatusEnum == {"Shipped", "Processing", "Cancelled", "Delivered"}

Required(doc, fields) == fields \subseteq DOMAIN doc

\* The validator without the enum of status.
orders_validator_no_enum(doc) ==
    /\ Required(doc, {"order_id", "customer_id", "order_date", "status"})
    /\ IsNum(doc.order_id)
    /\ IsNum(doc.customer_id)
    /\ doc.order_date.ok

orders_validator(doc) ==
    /\ Required(doc, {"order_id", "customer_id", "order_date", "status"})
    /\ IsNum(doc.order_id)
    /\ IsNum(doc.customer_id)
    /\ doc.order_date.ok
    /\ doc.status \in StatusEnum

order_items_validator_any_id(doc) ==
    /\ Required(doc, {"order_item_id", "order_id", "product_id", "quantity", "price"})
    /\ IsNum(doc.order_id)
    /\ IsNum(doc.product_id)
    /\ IsNum(doc.quantity) /\ doc.quantity[1] >= 1
    /\ IsNum(doc.price) /\ doc.price[1] >= 0

order_items_validator(doc) ==
    /\ Required(doc, {"order_item_id", "order_id", "product_id", "quantity", "price"})
    /\ IsNum(doc.order_item_id)
    /\ IsNum(doc.order_id)
    /\ IsNum(doc.product_id)
    /\ IsNum(doc.quantity) /\ doc.quantity[1] >= 1
    /\ IsNum(doc.price) /\ doc.price[1] >= 0

\* Orders written by open transactions and not yet committed.
PendingOrders == UNION {txn[q].orders : q \in Procs}

\* orders has a unique index on order_id; order_items has none on
\* order_item_id.
orders_no_unique_index(doc) == TRUE

orders_unique_index(doc) ==
    \A d \in orders \cup PendingOrders : d.order_id # doc.order_id

order_items_unique_index(doc) == TRUE

(***************************************************************************)
(* generate_id_from_field                                                  *)
(***************************************************************************)
\* The values $max ranges over: the field's non-null values.
FieldValues(coll, field) ==
    {v[1] : v \in {d[field] : d \in {x \in coll : field \in DOMAIN x}} \ {None}}

\* [{"$group": {"_id": None, "max_<field>": {"$max": "$<field>"}}}]: no
\* result on an empty collection, else one document.
aggregate(coll, field) ==
    IF coll = {} THEN <<>>
    ELSE <<[max |-> IF FieldValues(coll, field) = {} THEN None
                   ELSE Num(SetMax(FieldValues(coll, field)))]>>

\* generate_id_from_field without the increment.
generate_id_no_increment(coll, field) ==
    LET result == aggregate(coll, field)
    IN  IF result = <<>> THEN [raised |-> FALSE, value |-> None]
        ELSE IF result[1].max = None THEN [raised |-> TRUE, value |-> None]
        ELSE [raised |-> FALSE, value |-> result[1].max]

\* generate_id_from_field with a null maximum taken for "no result".
generate_id_none_on_null(coll, field) ==
    LET result == aggregate(coll, field)
    IN  IF result = <<>> THEN [raised |-> FALSE, value |-> None]
        ELSE IF result[1].max = None THEN [raised |-> FALSE, value |-> None]
        ELSE [raised |-> FALSE, value |-> Num(result[1].max[1] + 1)]

\* [raised |-> TRUE] is the TypeError of None + 1.
generate_id_from_field(coll, field) ==
    LET result == aggregate(coll, field)
    IN  IF result = <<>> THEN [raised |-> FALSE, value |-> None]
        ELSE IF result[1].max = None THEN [raised |-> TRUE, value |-> None]
        ELSE [raised |-> FALSE, value |-> Num(result[1].max[1] + 1)]

\* What collection.aggregate(pipeline), called without session=, reads of a
\* collection whose committed documents are `committed` while the caller's
\* transaction holds `pending`.
aggregate_reads(committed, pending) == committed

\* id_read_guard as a lock held from a caller's read to the end of its
\* transaction.
id_read_lock(p) == \A q \in Procs \ {p} : pc[q] \in {"idle", "done", "gen_order"}

\* Nothing serialises the callers of generate_id_from_field.
id_read_guard(p) == TRUE

(***************************************************************************)
(* create_order                                                            *)
(***************************************************************************)
\* insert_one gives the document a fresh ObjectId: caller, call, position.
NewObjectId(p, k) == <<p, hist[p].calls, k>>

order_doc(p) ==
    [_id |-> NewObjectId(p, 0),
     order_id |-> loc[p].order_id,
     customer_id |-> loc[p].customer_id,
     order_date |-> OrderDate,
     status |-> "Processing"]

order_item_doc(p) ==
    LET product == loc[p].product_orders[loc[p].i]
    IN  [_id |-> NewObjectId(p, loc[p].i),
         order_item_id |-> loc[p].item_id,
         order_id |-> loc[p].order_id,
         product_id |-> product.product_id,
         quantity |-> product.quantity,
         price |-> product.price]

\* insert_order with session= left out: the write is committed at once.
insert_order_no_session(p, doc) ==
    /\ txn' = [txn EXCEPT ![p].state = "IN_PROGRESS"]
    /\ orders' = orders \cup {doc}
    /\ UNCHANGED order_items

\* orders.insert_one(order, session=session)
insert_order(p, doc) ==
    /\ txn' = [txn EXCEPT ![p].state = "IN_PROGRESS", ![p].orders = @ \cup {doc}]
    /\ UNCHANGED <<orders, order_items>>

\* order_items.insert_one(order_item, session=session)
insert_order_item(p, doc) ==
    /\ txn' = [txn EXCEPT ![p].state = "IN_PROGRESS", ![p].items = @ \cup {doc}]
    /\ UNCHANGED <<orders, order_items>>

\* products_after_item with the stock update of the comment switched on:
\* {"$inc": {"stock": -quantity}} on the product ordered.
products_stock_decrement(product) ==
    {IF d.product_id = product.product_id
     THEN [f \in DOMAIN d \cup {"stock"} |->
              IF f = "stock" THEN Num(0 - product.quantity[1]) ELSE d[f]]
     ELSE d : d \in products}

\* The products collection after the loop body has run for one line item
\* (the stock update is commented out).
products_after_item(product) == products

\* except_handler as a retry loop: the failed statement is issued again.
except_retry(stage) == stage

\* Where control goes when a statement of the try block raises.
except_handler(stage) == "abort"

LineItems ==
    {[product_id |-> Num(101), quantity |-> Num(2), price |-> Num(1200)],
     [product_id |-> Num(103), quantity |-> Num(1), price |-> Num(800)],
     [product_id |-> Num(102), quantity |-> Num(0), price |-> Num(800)]}

ProductOrders == UNION {[1..n -> LineItems] : n \in 0..MaxItems}

CustomerIds == {Num(1)}

IdleTxn == [state |-> "NONE", orders |-> {}, items |-> {}]

NoCall ==
    [calls |-> 0, pre_orders |-> {}, pre_items |-> {}, starts |-> 0,
     ins_order |-> 0, ins_item |-> <<>>, commits |-> 0, aborts |-> 0,
     aborted |-> 0, failed |-> FALSE, late |-> 0, printed |-> <<>>,
     outcome |-> "none"]

NoLocals ==
    [customer_id |-> None, product_orders |-> <<>>, order_id |-> None,
     item_id |-> None, i |-> 0, seen |-> None]

\* create_order(customer_id, product_orders): start_session, start_transaction.
Call(p, customer_id, product_orders) ==
    /\ pc[p] \in {"idle", "done"}
    /\ UNCHANGED pure
    /\ hist[p].calls < MaxCalls
    /\ pc' = [pc EXCEPT ![p] = "gen_order"]
    /\ loc' = [loc EXCEPT ![p] = [NoLocals EXCEPT !.customer_id = customer_id,
                                                  !.product_orders = product_orders]]
    /\ txn' = [txn EXCEPT ![p] = [IdleTxn EXCEPT !.state = "STARTING"]]
    /\ hist' = [hist EXCEPT ![p] =
                    [NoCall EXCEPT !.calls = hist[p].calls + 1,
                                   !.pre_orders = orders,
                                   !.pre_items = order_items,
                                   !.starts = 1,
                                   !.ins_item = [k \in 1..Len(product_orders) |-> 0],
                                   !.outcome = "running"]]
    /\ UNCHANGED <<orders, order_items, products, customers>>

\* A statement of the try block raised.
Raise(p, stage, h) ==
    /\ pc' = [pc EXCEPT ![p] = except_handler(stage)]
    /\ hist' = [hist EXCEPT ![p] = [h EXCEPT !.failed = TRUE]]

\* A statement of the try block is issued: `late` counts those issued after
\* a failure.
Issued(p) == [hist[p] EXCEPT !.late = @ + (IF hist[p].failed THEN 1 ELSE 0)]

\* order_id = generate_id_from_field(orders, "order_id")
GenOrderId(p) ==
    /\ pc[p] = "gen_order"
    /\ UNCHANGED pure
    /\ id_read_guard(p)
    /\ \E net \in BOOLEAN :
        LET r == generate_id_from_field(aggregate_reads(orders, txn[p].orders), "order_id")
        IN  IF net /\ ~r.raised
            THEN /\ loc' = [loc EXCEPT ![p].order_id = r.value,
                                       ![p].seen = aggregate(orders, "order_id")]
                 /\ pc' = [pc EXCEPT ![p] = "ins_order"]
                 /\ UNCHANGED hist
            ELSE /\ Raise(p, "gen_order", hist[p])
                 /\ UNCHANGED loc
    /\ UNCHANGED <<orders, order_items, products, customers, txn>>

\* orders.insert_one(order, session=session), then the head of the loop.
InsertOrder(p) ==
    /\ pc[p] = "ins_order"
    /\ UNCHANGED pure
    /\ \E net \in BOOLEAN :
        LET doc == order_doc(p)
            h == [Issued(p) EXCEPT !.ins_order = @ + 1]
        IN  IF net /\ orders_validator(doc) /\ orders_unique_index(doc)
            THEN /\ insert_order(p, doc)
                 /\ loc' = [loc EXCEPT ![p].i = 1]
                 /\ pc' = [pc EXCEPT ![p] =
                              IF Len(loc[p].product_orders) >= 1 THEN "gen_item"
                              ELSE "commit"]
                 /\ hist' = [hist EXCEPT ![p] = h]
            ELSE /\ Raise(p, "ins_order", h)
                 /\ UNCHANGED <<orders, order_items, txn, loc>>
    /\ UNCHANGED <<products, customers>>

\* "order_item_id": generate_id_from_field(order_items, "order_item_id")
GenItemId(p) ==
    /\ pc[p] = "gen_item"
    /\ UNCHANGED pure
    /\ id_read_guard(p)
    /\ \E net \in BOOLEAN :
        LET coll == aggregate_reads(order_items, txn[p].items)
            r == generate_id_from_field(coll, "order_item_id")
        IN  IF net /\ ~r.raised
            THEN /\ loc' = [loc EXCEPT ![p].item_id = r.value,
                                       ![p].seen = aggregate(order_items, "order_item_id")]
                 /\ pc' = [pc EXCEPT ![p] = "ins_item"]
                 /\ UNCHANGED hist
            ELSE /\ Raise(p, "gen_item", hist[p])
                 /\ UNCHANGED loc
    /\ UNCHANGED <<orders, order_items, products, customers, txn>>

\* order_items.insert_one(order_item, session=session), then the next item.
InsertItem(p) ==
    /\ pc[p] = "ins_item"
    /\ UNCHANGED pure
    /\ \E net \in BOOLEAN :
        LET doc == order_item_doc(p)
            i == loc[p].i
            h == [Issued(p) EXCEPT !.ins_item[i] = @ + 1]
        IN  IF net /\ order_items_validator(doc) /\ order_items_unique_index(doc)
            THEN /\ insert_order_item(p, doc)
                 /\ products' = products_after_item(loc[p].product_orders[i])
                 /\ loc' = [loc EXCEPT ![p].i = i + 1]
                 /\ pc' = [pc EXCEPT ![p] =
                              IF i + 1 <= Len(loc[p].product_orders) THEN "gen_item"
                              ELSE "commit"]
                 /\ hist' = [hist EXCEPT ![p] = h]
            ELSE /\ Raise(p, "ins_item", h)
                 /\ UNCHANGED <<orders, order_items, products, txn, loc>>
    /\ UNCHANGED customers

\* session.commit_transaction(); print(f"Order {order_id} created successfully.")
Commit(p) ==
    /\ pc[p] = "commit"
    /\ UNCHANGED pure
    /\ \E raised \in BOOLEAN, applied \in BOOLEAN :
        LET h == [Issued(p) EXCEPT !.commits = @ + 1]
        IN  /\ raised \/ applied
            /\ IF applied
               THEN /\ orders' = orders \cup txn[p].orders
                    /\ order_items' = order_items \cup txn[p].items
               ELSE UNCHANGED <<orders, order_items>>
            /\ txn' = [txn EXCEPT ![p] = [IdleTxn EXCEPT !.state = "COMMITTED"]]
            /\ IF raised
               THEN Raise(p, "commit", h)
               ELSE /\ pc' = [pc EXCEPT ![p] = "done"]
                    /\ hist' = [hist EXCEPT ![p] =
                                   [h EXCEPT !.printed = Append(@, "created"),
                                             !.outcome = "returned"]]
    /\ UNCHANGED <<products, customers, loc>>

\* except Exception as e: session.abort_transaction(); print(...)
Abort(p) ==
    /\ pc[p] = "abort"
    /\ UNCHANGED pure
    /\ IF txn[p].state \in {"STARTING", "IN_PROGRESS"}
       THEN /\ txn' = [txn EXCEPT ![p] = [IdleTxn EXCEPT !.state = "ABORTED"]]
            /\ hist' = [hist EXCEPT ![p].aborts = @ + 1,
                                    ![p].aborted = @ + 1,
                                    ![p].printed = Append(@, "error"),
                                    ![p].outcome = "returned"]
       ELSE /\ UNCHANGED txn
            /\ hist' = [hist EXCEPT ![p].aborts = @ + 1,
                                    ![p].outcome = "raised"]
    /\ pc' = [pc EXCEPT ![p] = "done"]
    /\ UNCHANGED <<orders, order_items, products, customers, loc>>

(***************************************************************************)
(* The collections after the fixtures are loaded and the indexes built.    *)
(***************************************************************************)
FixtureDate ==
    <<"2", "0", "2", "4", "-", "0", "1", "-", "1", "5", "T",
      "1", "0", ":", "0", "0", ":", "0", "0", "Z">>

FixtureOrder(n) ==
    [_id |-> <<0, 1, n>>, order_id |-> Num(5000 + n), customer_id |-> Num(1),
     order_date |-> strptime(FixtureDate), status |-> "Delivered"]

FixtureItem(n, o, prod) ==
    [_id |-> <<0, 2, n>>, order_item_id |-> Num(9000 + n), order_id |-> Num(5000 + o),
     product_id |-> Num(prod), quantity |-> Num(1), price |-> Num(1200)]

FixtureProducts ==
    {[_id |-> <<0, 3, 1>>, product_id |-> Num(101), product_name |-> "Laptop",
      category |-> "Electronics", price |-> Num(1200)],
     [_id |-> <<0, 3, 2>>, product_id |-> Num(102), product_name |-> "Desk",
      category |-> "Furniture", price |-> Num(800)]}

FixtureCustomers ==
    {[_id |-> <<0, 4, 1>>, customer_id |-> Num(1), name |-> "Alice"]}

\* The state of a function that is not being run.
NoGen == [state |-> "off"]
NoRun == [state |-> "off"]

AuxOff ==
    /\ agg = NoRun
    /\ plot = NoRun
    /\ watch = NoRun
    /\ setup = NoRun

Fixtures ==
    {[orders |-> {}, order_items |-> {}],
     [orders |-> {FixtureOrder(1)}, order_items |-> {}],
     [orders |-> {FixtureOrder(1)}, order_items |-> {FixtureItem(1, 1, 101)}],
     [orders |-> {FixtureOrder(1), FixtureOrder(2)},
      order_items |-> {FixtureItem(1, 1, 101), FixtureItem(2, 2, 102)}]}

Init ==
    /\ \E f \in Fixtures : orders = f.orders /\ order_items = f.order_items
    /\ products = FixtureProducts
    /\ customers = FixtureCustomers
    /\ pc = [p \in Procs |-> "idle"]
    /\ loc = [p \in Procs |-> NoLocals]
    /\ txn = [p \in Procs |-> IdleTxn]
    /\ hist = [p \in Procs |-> NoCall]
    /\ gen = NoGen
    /\ load = NoRun
    /\ conv = NoRun
    /\ AuxOff

\* No call is running.
Quiet == \A q \in Procs : pc[q] \in {"idle", "done"}

\* The notebook: one caller, one call at a time.
CallSeq ==
    /\ Quiet
    /\ \E c \in CustomerIds, po \in ProductOrders : Call(1, c, po)

Next ==
    \/ CallSeq
    \/ GenOrderId(1)
    \/ InsertOrder(1)
    \/ GenItemId(1)
    \/ InsertItem(1)
    \/ Commit(1)
    \/ Abort(1)

Spec == Init /\ [][Next]_vars

\* Two callers whose calls may overlap.
ConcProductOrders ==
    UNION {[1..n -> {[product_id |-> Num(101), quantity |-> Num(2), price |-> Num(1200)]}] :
              n \in 0..MaxConcItems}

CallConc(p) ==
    /\ hist[p].calls < MaxConcCalls
    /\ \E c \in CustomerIds, po \in ConcProductOrders : Call(p, c, po)

NextConc ==
    \E p \in Procs :
        \/ CallConc(p)
        \/ GenOrderId(p)
        \/ InsertOrder(p)
        \/ GenItemId(p)
        \/ InsertItem(p)
        \/ Commit(p)
        \/ Abort(p)

SpecConc == Init /\ [][NextConc]_vars

(***************************************************************************)
(* generate_id_from_field run on its own, on any collection and field.     *)
(***************************************************************************)
\* The database when only a function is run.
DbOff ==
    /\ orders = {}
    /\ order_items = {}
    /\ products = {}
    /\ customers = {}
    /\ pc = [p \in Procs |-> "idle"]
    /\ loc = [p \in Procs |-> NoLocals]
    /\ txn = [p \in Procs |-> IdleTxn]
    /\ hist = [p \in Procs |-> NoCall]

GenDocs ==
    {FixtureOrder(n) : n \in 1..MaxFixture}
        \cup {FixtureItem(n, n, 101) : n \in 1..MaxFixture}
        \cup {[_id |-> <<0, 5, 1>>, order_id |-> None, note |-> "draft"]}

GenFields == {"order_id", "order_item_id", "product_id"}

\* The pipeline has no stage that writes ($out, $merge).
aggregate_writes(coll) == coll

InitGen ==
    /\ \E c \in SUBSET GenDocs, f \in GenFields :
          gen = [state |-> "ready", coll |-> c, before |-> c, field |-> f,
                 value |-> None]
    /\ load = NoRun
    /\ conv = NoRun
    /\ DbOff
    /\ AuxOff

GenerateId ==
    /\ gen.state = "ready"
    /\ LET r == generate_id_from_field(gen.coll, gen.field)
       IN  gen' = [gen EXCEPT !.state = IF r.raised THEN "raised" ELSE "returned",
                              !.value = r.value,
                              !.coll = aggregate_writes(gen.coll)]
    /\ UNCHANGED <<db, load, conv, aux>>

SpecGen == InitGen /\ [][GenerateId]_vars

(***************************************************************************)
(* load_json.  A JSON value is tagged with its type; a document is a       *)
(* record of JSON values.                                                  *)
(***************************************************************************)
Str(chars) == [type |-> "string", str |-> chars]
Obj(f) == [type |-> "object", obj |-> f]
JNum(n) == [type |-> "number", num |-> n]

HexLower == <<"0", "1", "2", "3", "4", "5", "6", "7", "8", "9",
              "a", "b", "c", "d", "e", "f">>
HexUpper == <<"0", "1", "2", "3", "4", "5", "6", "7", "8", "9",
              "A", "B", "C", "D", "E", "F">>

IsHex(c) == \E k \in 1..16 : HexLower[k] = c \/ HexUpper[k] = c

HexVal(c) == (CHOOSE k \in 1..16 : HexLower[k] = c \/ HexUpper[k] = c) - 1

\* bson.ObjectId(oid): twelve bytes from a string of 24 hex digits.
ObjectId(oid) ==
    IF oid.type = "string" /\ Len(oid.str) = 24 /\ \A k \in 1..24 : IsHex(oid.str[k])
    THEN [raised |-> FALSE,
          value |-> [type |-> "ObjectId",
                     bytes |-> [k \in 1..12 |->
                                   16 * HexVal(oid.str[2 * k - 1]) + HexVal(oid.str[2 * k])]]]
    ELSE [raised |-> TRUE]

\* Whether chars occurs in s as a substring.
Occurs(chars, s) ==
    \E k \in 1..(Len(s) - Len(chars) + 1) : SubSeq(s, k, k + Len(chars) - 1) = chars

OidKey == <<"$", "o", "i", "d">>

\* document["_id"] = document["_id"]["$oid"]: the conversion left out.
take_oid_string(document) ==
    [raised |-> FALSE,
     doc |-> [document EXCEPT !["_id"] = document["_id"].obj["$oid"]]]

\* document["_id"] = ObjectId(document["_id"]["$oid"])
replace_oid(document) ==
    LET r == ObjectId(document["_id"].obj["$oid"])
    IN  IF r.raised THEN [raised |-> TRUE, doc |-> document]
        ELSE [raised |-> FALSE, doc |-> [document EXCEPT !["_id"] = r.value]]

\* The body of load_json's loop for one document.
load_document(document) ==
    IF "_id" \notin DOMAIN document
    THEN [raised |-> TRUE, doc |-> document]
    ELSE LET id == document["_id"]
         IN  CASE id.type = "object" ->
                    IF "$oid" \in DOMAIN id.obj THEN replace_oid(document)
                    ELSE [raised |-> FALSE, doc |-> document]
               [] id.type = "string" ->
                    IF Occurs(OidKey, id.str) THEN [raised |-> TRUE, doc |-> document]
                    ELSE [raised |-> FALSE, doc |-> document]
               [] OTHER -> [raised |-> TRUE, doc |-> document]

Oid1 ==
    <<"5", "0", "7", "f", "1", "f", "7", "7", "b", "c", "f", "8",
      "6", "c", "d", "7", "9", "9", "4", "3", "9", "0", "1", "1">>
Oid2 ==
    <<"6", "7", "6", "7", "E", "2", "A", "4", "0", "B", "9", "D",
      "5", "C", "3", "F", "0", "0", "0", "0", "0", "0", "F", "F">>
OidShort == <<"5", "0", "7", "f", "1", "f">>

LoadDocs ==
    {[_id |-> Obj([k \in {"$oid"} |-> Str(Oid1)]), customer_id |-> JNum(1)],
     [_id |-> Obj([k \in {"$oid"} |-> Str(Oid2)]), customer_id |-> JNum(2)],
     [_id |-> Obj([k \in {"$oid"} |-> Str(OidShort)]), customer_id |-> JNum(3)],
     [_id |-> Obj([k \in {"$uuid"} |-> Str(Oid1)]), customer_id |-> JNum(4)],
     [_id |-> Str(<<"c", "5">>), customer_id |-> JNum(5)],
     [_id |-> Str(<<"a", "$", "o", "i", "d">>), customer_id |-> JNum(6)],
     [_id |-> JNum(7), customer_id |-> JNum(7)],
     [customer_id |-> JNum(8)]}

DocLists(S) == UNION {[1..n -> S] : n \in 0..MaxDocs}

InitLoad ==
    /\ \E l \in DocLists(LoadDocs) :
          load = [state |-> "loop", input |-> l, json_data |-> l, i |-> 1]
    /\ gen = NoGen
    /\ conv = NoRun
    /\ DbOff
    /\ AuxOff

\* for document in json_data: ...
LoadStep ==
    /\ load.state = "loop"
    /\ load.i <= Len(load.json_data)
    /\ LET r == load_document(load.json_data[load.i])
       IN  load' = [load EXCEPT !.json_data[load.i] = r.doc,
                                !.i = @ + 1,
                                !.state = IF r.raised THEN "raised" ELSE "loop"]
    /\ UNCHANGED <<db, gen, conv, aux>>

\* return json_data
LoadReturn ==
    /\ load.state = "loop"
    /\ load.i > Len(load.json_data)
    /\ load' = [load EXCEPT !.state = "returned"]
    /\ UNCHANGED <<db, gen, conv, aux>>

NextLoad == LoadStep \/ LoadReturn

SpecLoad == InitLoad /\ [][NextLoad]_vars

(***************************************************************************)
(* convert_date                                                            *)
(***************************************************************************)
Pad2(n) == <<Digits[(n \div 10) + 1], Digits[(n % 10) + 1]>>

\* dt.strftime("%Y-%m-%dT%H:%M:%SZ")
strftime(dt) ==
    Pad2(dt.year \div 100) \o Pad2(dt.year % 100) \o <<"-">> \o Pad2(dt.month)
        \o <<"-">> \o Pad2(dt.day) \o <<"T">> \o Pad2(dt.hour) \o <<":">>
        \o Pad2(dt.minute) \o <<":">> \o Pad2(dt.second) \o <<"Z">>

\* dt.datetime.strptime(value, "%Y-%m-%dT%H:%M:%SZ") on a JSON value.
parse_date(value) ==
    IF value.type # "string" THEN [raised |-> TRUE]
    ELSE LET r == strptime(value.str)
         IN  IF r.ok THEN [raised |-> FALSE, value |-> [type |-> "datetime", dt |-> r.dt]]
             ELSE [raised |-> TRUE]

\* if field in document: document[field] = strptime(document[field], ...)
convert_field(document, field) ==
    IF field \notin DOMAIN document THEN [raised |-> FALSE, doc |-> document]
    ELSE LET r == parse_date(document[field])
         IN  IF r.raised THEN [raised |-> TRUE, doc |-> document]
             ELSE [raised |-> FALSE, doc |-> [document EXCEPT ![field] = r.value]]

\* convert_document without the delivery_date branch.
convert_order_date_only(document) == convert_field(document, "order_date")

\* The body of convert_date's loop for one document.
convert_document(document) ==
    LET a == convert_field(document, "order_date")
    IN  IF a.raised THEN a ELSE convert_field(a.doc, "delivery_date")

Instant(Y, m, d, H, M, S) ==
    [year |-> Y, month |-> m, day |-> d, hour |-> H, minute |-> M, second |-> S]

\* Date strings with the instant each denotes.
DateTable ==
    {[str |-> strftime(Instant(2024, 12, 20, 10, 0, 0)),
      dt |-> Instant(2024, 12, 20, 10, 0, 0)],
     [str |-> strftime(Instant(2024, 2, 29, 23, 59, 59)),
      dt |-> Instant(2024, 2, 29, 23, 59, 59)],
     [str |-> <<"2", "0", "2", "5", "-", "1", "-", "5", "t", "1", ":", "2", ":", "3", "z">>,
      dt |-> Instant(2025, 1, 5, 1, 2, 3)]}

NotADay == strftime(Instant(2023, 2, 29, 10, 0, 0))
NoZone ==
    <<"2", "0", "2", "4", "-", "1", "2", "-", "2", "0", " ",
      "1", "0", ":", "0", "0", ":", "0", "0">>

ConvDocs ==
    {[order_id |-> JNum(1)],
     [order_id |-> JNum(2), order_date |-> Str(strftime(Instant(2024, 12, 20, 10, 0, 0)))],
     [order_id |-> JNum(3), order_date |-> Str(strftime(Instant(2024, 12, 20, 10, 0, 0))),
      delivery_date |-> Str(strftime(Instant(2024, 2, 29, 23, 59, 59)))],
     [order_id |-> JNum(4),
      delivery_date |-> Str(<<"2", "0", "2", "5", "-", "1", "-", "5", "t",
                              "1", ":", "2", ":", "3", "z">>)],
     [order_id |-> JNum(5), order_date |-> Str(NoZone)],
     [order_id |-> JNum(6), order_date |-> JNum(1734688800)],
     [order_id |-> JNum(7), order_date |-> Str(strftime(Instant(2024, 12, 20, 10, 0, 0))),
      delivery_date |-> Str(NotADay)]}

InitConv ==
    /\ \E l \in DocLists(ConvDocs) :
          conv = [state |-> "loop", input |-> l, json_data |-> l, i |-> 1]
    /\ gen = NoGen
    /\ load = NoRun
    /\ DbOff
    /\ AuxOff

\* for document in json_data: ...
ConvStep ==
    /\ conv.state = "loop"
    /\ conv.i <= Len(conv.json_data)
    /\ LET r == convert_document(conv.json_data[conv.i])
       IN  conv' = [conv EXCEPT !.json_data[conv.i] = r.doc,
                                !.i = @ + 1,
                                !.state = IF r.raised THEN "raised" ELSE "loop"]
    /\ UNCHANGED <<db, gen, load, aux>>

\* return json_data
ConvReturn ==
    /\ conv.state = "loop"
    /\ conv.i > Len(conv.json_data)
    /\ conv' = [conv EXCEPT !.state = "returned"]
    /\ UNCHANGED <<db, gen, load, aux>>

NextConv == ConvStep \/ ConvReturn

SpecConv == InitConv /\ [][NextConv]_vars

(***************************************************************************)
(* Properties of create_order in the notebook's single-threaded use.       *)
(***************************************************************************)
NewOrders(p) == orders \ hist[p].pre_orders

NewItems(p) == order_items \ hist[p].pre_items

NItems(p) == Len(loc[p].product_orders)

\* C1: create_order is all-or-nothing.  When a call has ended, either
\* orders holds exactly one new document and order_items exactly N new
\* documents, all carrying the new order's order_id, or both collections
\* are exactly what they were before the call.
C1_AllOrNothing ==
    \A p \in Procs :
        pc[p] = "done" =>
            \/ /\ hist[p].pre_orders \subseteq orders
               /\ hist[p].pre_items \subseteq order_items
               /\ Cardinality(NewOrders(p)) = 1
               /\ Cardinality(NewItems(p)) = NItems(p)
               /\ \A o \in NewOrders(p), i \in NewItems(p) : i.order_id = o.order_id
            \/ /\ orders = hist[p].pre_orders
               /\ order_items = hist[p].pre_items

\* A call of two line items whose second insert was rejected after the
\* order and the first item were written: everything is rolled back.
C1_Witness ==
    /\ pc[1] = "done"
    /\ hist[1].failed
    /\ hist[1].ins_order = 1
    /\ hist[1].ins_item = <<1, 1>>
    /\ hist[1].aborted = 1
    /\ orders = hist[1].pre_orders
    /\ order_items = hist[1].pre_items
    /\ orders # {}

\* C3: order_item_id is an identity of order items: no two documents of
\* order_items carry the same order_item_id.
C3_DistinctItemIds ==
    \A d1, d2 \in order_items :
        d1._id # d2._id => d1.order_item_id # d2.order_item_id

\* C5: a transaction failure never escapes create_order.  Whenever a step
\* of the transaction body raised, the call ends by returning normally,
\* with the transaction aborted and one error message printed.
C5_FailureNeverEscapes ==
    \A p \in Procs :
        (pc[p] = "done" /\ hist[p].failed) =>
            /\ hist[p].outcome = "returned"
            /\ hist[p].aborted = 1
            /\ hist[p].printed = <<"error">>

\* What C6 says of every call: one transaction, each insert issued at most
\* once, nothing issued after the first failure.
NoRetry(p) ==
    /\ hist[p].starts = (IF hist[p].calls = 0 THEN 0 ELSE 1)
    /\ hist[p].ins_order <= 1
    /\ \A k \in DOMAIN hist[p].ins_item : hist[p].ins_item[k] <= 1
    /\ hist[p].commits <= 1
    /\ hist[p].late = 0
    /\ hist[p].aborts <= 1
    /\ ~hist[p].failed => hist[p].aborts = 0

C7_ReferentialIntegrity ==
    \A i \in order_items :
        /\ \E o \in orders : o.order_id = i.order_id
        /\ \E x \in products : x.product_id = i.product_id

HoldsOrder(p) == txn[p].orders # {}

\* C4 as stated, for order_items: nothing stops a second create_order call
\* that runs while the first holds its uncommitted writes, so that both can
\* commit items under the same order_item_id.  Here: while p holds its
\* order, the order insert of a concurrent caller q is not refused.
C4_NothingStopsSecondCall ==
    \A p, q \in Procs :
        (p # q /\ HoldsOrder(p) /\ pc[q] = "ins_order" /\ orders_validator(order_doc(q)))
            => orders_unique_index(order_doc(q))

\* C4 amended: two callers of generate_id_from_field that read the same
\* maximum obtain the same next value, and no lock ever keeps a caller from
\* reading; but two overlapping create_order calls then hold the same
\* order_id, the unique index on orders.order_id lets only one of them
\* write its order, and order items committed by different calls never
\* share an order_item_id.
C4_UnsafeIdGeneration ==
    /\ \A p, q \in Procs :
          (pc[p] = "ins_order" /\ pc[q] = "ins_order" /\ loc[p].seen = loc[q].seen)
              => loc[p].order_id = loc[q].order_id
    /\ \A p \in Procs :
          /\ pc[p] = "gen_order" => ENABLED GenOrderId(p)
          /\ pc[p] = "gen_item" => ENABLED GenItemId(p)
    /\ \A p, q \in Procs : (HoldsOrder(p) /\ HoldsOrder(q)) => p = q
    /\ \A d1, d2 \in order_items :
          (d1._id[1] # d2._id[1] \/ d1._id[2] # d2._id[2])
              => d1.order_item_id # d2.order_item_id

\* Both callers have read the same maximum of orders.order_id before either
\* has inserted, and hold the same next order_id.
C4_Witness ==
    /\ pc[1] = "ins_order"
    /\ pc[2] = "ins_order"
    /\ IsNum(loc[1].order_id)
    /\ loc[1].order_id = loc[2].order_id

(***************************************************************************)
(* Properties of generate_id_from_field.                                   *)
(***************************************************************************)
\* The values of the field over the documents that carry one.
GenValues ==
    {n \in 0..10000 :
        \E d \in gen.before : gen.field \in DOMAIN d /\ d[gen.field] = <<n>>}

IsGenMax(m) == m \in GenValues /\ \A n \in GenValues : n <= m

\* C2 as stated: generate_id_from_field returns max + 1 whenever the
\* collection is non-empty and None when it is empty, and writes nothing.
C2_MaxPlusOneWhenNonEmpty ==
    gen.state \in {"returned", "raised"} =>
        /\ gen.coll = gen.before
        /\ gen.before = {} => (gen.state = "returned" /\ gen.value = None)
        /\ gen.before # {} =>
              /\ gen.state = "returned"
              /\ \E m \in GenValues : IsGenMax(m) /\ gen.value = <<m + 1>>

\* C2 amended: generate_id_from_field returns max + 1 whenever some
\* document of the collection carries a value of the field, returns None
\* when the collection has no documents, and raises (None + 1) when the
\* collection is non-empty and no document carries the field; it writes
\* nothing.
C2_MaxPlusOne ==
    gen.state \in {"returned", "raised"} =>
        /\ gen.coll = gen.before
        /\ gen.before = {} => (gen.state = "returned" /\ gen.value = None)
        /\ GenValues # {} =>
              /\ gen.state = "returned"
              /\ \E m \in GenValues : IsGenMax(m) /\ gen.value = <<m + 1>>
        /\ (gen.before # {} /\ GenValues = {}) => gen.state = "raised"

\* A call on a collection of several documents, not all of which carry the
\* field, that returned an integer.
C2_Witness ==
    /\ gen.state = "returned"
    /\ Cardinality(gen.before) >= 3
    /\ Cardinality(GenValues) >= 2
    /\ \E d \in gen.before : gen.field \notin DOMAIN d
    /\ IsNum(gen.value)

(***************************************************************************)
(* Properties of the fixture loaders.                                      *)
(***************************************************************************)
\* The document's _id is the wrapped representation {"$oid": ...}.
Wrapped(document) ==
    /\ "_id" \in DOMAIN document
    /\ document["_id"].type = "object"
    /\ "$oid" \in DOMAIN document["_id"].obj

\* str(ObjectId): two lower-case hex digits per byte.
HexString(bytes) ==
    [k \in 1..(2 * Len(bytes)) |->
        IF k % 2 = 1 THEN HexLower[(bytes[(k + 1) \div 2] \div 16) + 1]
        ELSE HexLower[(bytes[k \div 2] % 16) + 1]]

LowerCase(chars) ==
    [k \in 1..Len(chars) |->
        IF \E j \in 1..16 : HexUpper[j] = chars[k]
        THEN HexLower[CHOOSE j \in 1..16 : HexUpper[j] = chars[k]]
        ELSE chars[k]]

\* C9: the list load_json returns has the documents of the file in the same
\* order; a document whose _id is {"$oid": h} has the ObjectId of h as its
\* _id, and every other field of every document is as read.
C9_LoadJson ==
    load.state = "returned" =>
        /\ Len(load.json_data) = Len(load.input)
        /\ \A k \in 1..Len(load.input) :
              LET a == load.input[k]
                  b == load.json_data[k]
              IN  /\ DOMAIN b = DOMAIN a
                  /\ \A f \in DOMAIN a \ {"_id"} : b[f] = a[f]
                  /\ Wrapped(a) =>
                        /\ b["_id"].type = "ObjectId"
                        /\ HexString(b["_id"].bytes) = LowerCase(a["_id"].obj["$oid"].str)
                  /\ ~Wrapped(a) => b = a

\* A returned list of a wrapped document (upper-case hex digits) and one
\* whose _id is not wrapped.
C9_Witness ==
    /\ load.state = "returned"
    /\ Len(load.input) = 2
    /\ Wrapped(load.input[1])
    /\ load.input[1]["_id"].obj["$oid"].str = Oid2
    /\ ~Wrapped(load.input[2])
    /\ load.json_data[1]["_id"].type = "ObjectId"

DateFields == {"order_date", "delivery_date"}

\* C10: the list convert_date returns has the documents of its input in the
\* same order; each order_date and delivery_date given as a string in the
\* format is the datetime of the instant the string denotes, and every
\* other field, and every document without these fields, is unchanged.
C10_ConvertDate ==
    conv.state = "returned" =>
        /\ Len(conv.json_data) = Len(conv.input)
        /\ \A k \in 1..Len(conv.input) :
              LET a == conv.input[k]
                  b == conv.json_data[k]
              IN  /\ DOMAIN b = DOMAIN a
                  /\ \A f \in DOMAIN a :
                        IF f \in DateFields /\ a[f].type = "string"
                        THEN \E e \in DateTable :
                                /\ e.str = a[f].str
                                /\ b[f] = [type |-> "datetime", dt |-> e.dt]
                        ELSE b[f] = a[f]

\* A returned list of a document with both dates and one with neither.
C10_Witness ==
    /\ conv.state = "returned"
    /\ Len(conv.input) = 2
    /\ DateFields \subseteq DOMAIN conv.input[1]
    /\ DOMAIN conv.input[2] \cap DateFields = {}
    /\ conv.json_data[1].delivery_date.type = "datetime"


(***************************************************************************)
(* The aggregation pipelines run on order_items.  A stage maps a set of    *)
(* documents to a set of documents; $sort and the final cursor give a      *)
(* sequence.  The server leaves the order of equal sort keys and of the    *)
(* groups of $group open.                                                  *)
(***************************************************************************)
\* "$field": the value of a field, null when the document has none.
Get(d, field) == IF field \in DOMAIN d THEN d[field] ELSE None

\* $lookup: the documents of from whose foreignField equals the localField,
\* stored under as (an array; it is only ever unwound).
lookup(docs, from, localField, foreignField, as) ==
    {(as :> {f \in from : Get(f, foreignField) = Get(d, localField)}) @@ d : d \in docs}

\* $unwind: one document for each element of the array, none when it is empty.
unwind(docs, field) ==
    UNION {{(field :> e) @@ d : e \in d[field]} : d \in docs}

\* $multiply: null when an operand is null or missing.
multiply(a, b) == IF IsNum(a) /\ IsNum(b) THEN Num(a[1] * b[1]) ELSE None

\* $sum over the documents of a group; a value that is no number counts 0.
RECURSIVE sum(_, _)
sum(docs, field) ==
    IF docs = {} THEN 0
    ELSE LET d == CHOOSE x \in docs : TRUE
             v == Get(d, field)
         IN  (IF IsNum(v) THEN v[1] ELSE 0) + sum(docs \ {d}, field)

\* The key of a descending $sort: null sorts below every number.
SortKey(v) == IF IsNum(v) THEN v[1] ELSE -1

\* $sort descending: every order of the documents with non-increasing keys.
RECURSIVE sort_desc(_, _, _)
sort_desc(docs, outer, field) ==
    IF docs = {} THEN {<<>>}
    ELSE LET key(d) == SortKey(Get(IF outer = "" THEN d ELSE d[outer], field))
             top == {d \in docs : \A e \in docs : key(e) <= key(d)}
         IN  UNION {{<<d>> \o t : t \in sort_desc(docs \ {d}, outer, field)} : d \in top}

\* Every order in which a cursor can hand out a set of documents.
RECURSIVE any_order(_)
any_order(docs) ==
    IF docs = {} THEN {<<>>}
    ELSE UNION {{<<d>> \o t : t \in any_order(docs \ {d})} : d \in docs}

(***************************************************************************)
(* 4.2.1 revenue by category                                               *)
(***************************************************************************)
\* "revenue": quantity times the order item's own price.
add_revenue_snapshot(d) ==
    ("revenue" :> multiply(Get(d, "quantity"), Get(d, "price"))) @@ d

\* $addFields "revenue": {"$multiply": ["$quantity", "$product_info.price"]}
add_revenue(d) ==
    ("revenue" :> multiply(Get(d, "quantity"), Get(d.product_info, "price"))) @@ d

\* $group by "$product_info.category" with total_revenue: {"$sum": "$revenue"}
group_by_category(docs) ==
    {[_id |-> c,
      total_revenue |-> Num(sum({d \in docs : Get(d.product_info, "category") = c},
                                "revenue"))] :
        c \in {Get(d.product_info, "category") : d \in docs}}

\* $project: product_category from _id, total_revenue kept, _id dropped.
project_category(docs) ==
    {[product_category |-> d["_id"], total_revenue |-> d.total_revenue] : d \in docs}

\* The results the pipeline can give: list(order_items.aggregate(pipeline)).
revenue_by_category(items, prods) ==
    LET joined == lookup(items, prods, "product_id", "product_id", "product_info")
        flat == unwind(joined, "product_info")
        revenue == {add_revenue(d) : d \in flat}
        rows == project_category(group_by_category(revenue))
    IN  sort_desc(rows, "", "total_revenue")

(***************************************************************************)
(* 2.4 top 3 most expensive products of each order                         *)
(***************************************************************************)
\* The object $push appends for one document.
push_entry(d) ==
    [product_name |-> Get(d.product_details, "product_name"),
     price |-> Get(d.product_details, "price"),
     quantity |-> Get(d, "quantity"),
     total_price |-> multiply(Get(d, "quantity"), Get(d.product_details, "price"))]

\* $group by "$order_id" with $push: the entries in the order the documents
\* arrive in.
group_by_order(s) ==
    {[_id |-> o,
      top_products |->
          LET InGroup(d) == Get(d, "order_id") = o
              mine == SelectSeq(s, InGroup)
          IN  [k \in 1..Len(mine) |-> push_entry(mine[k])]] :
        o \in {Get(s[k], "order_id") : k \in 1..Len(s)}}

\* The whole array: the $slice left out.
no_slice(arr) == arr

\* {"$slice": ["$top_products", 3]}
top_slice(arr) == SubSeq(arr, 1, IF Len(arr) < 3 THEN Len(arr) ELSE 3)

\* $project: order_id from _id, top_products sliced, _id dropped.
project_top(d) == [order_id |-> d["_id"], top_products |-> top_slice(d.top_products)]

\* The results the pipeline can give: order_items.aggregate(pipeline).to_list()
top_products_per_order(items, prods) ==
    LET joined == lookup(items, prods, "product_id", "product_id", "product_details")
        flat == unwind(joined, "product_details")
    IN  UNION {any_order({project_top(g) : g \in group_by_order(s)}) :
                  s \in sort_desc(flat, "product_details", "price")}

(***************************************************************************)
(* The pipelines run on any order items and products the validators and    *)
(* the unique index on products.product_id admit.                          *)
(***************************************************************************)
AggProduct(n, name, cat, price) ==
    [_id |-> <<0, 3, n>>, product_id |-> Num(n), product_name |-> name,
     category |-> cat, price |-> Num(price)]

AggProducts ==
    {AggProduct(101, "Laptop", "Electronics", 1200),
     AggProduct(102, "Desk", "Furniture", 800),
     AggProduct(104, "Mouse", "Electronics", 300),
     AggProduct(105, "Kite", "Toys", 800)}

AggItem(n, o, prod, quantity, price) ==
    [_id |-> <<0, 2, n>>, order_item_id |-> Num(9000 + n), order_id |-> Num(5000 + o),
     product_id |-> Num(prod), quantity |-> Num(quantity), price |-> Num(price)]

\* Order 5001 has four items; product 103 does not exist; the price on an
\* item is the price at the time of purchase.
AggItems ==
    {AggItem(1, 1, 101, 1, 1000),
     AggItem(2, 1, 102, 2, 800),
     AggItem(3, 1, 104, 1, 300),
     AggItem(4, 1, 105, 3, 700),
     AggItem(5, 2, 101, 2, 1200),
     AggItem(6, 2, 103, 1, 50),
     AggItem(7, 3, 105, 1, 800)}

InitAgg ==
    /\ \E i \in SUBSET AggItems, p \in SUBSET AggProducts :
          order_items = i /\ products = p
    /\ orders = {}
    /\ customers = {}
    /\ pc = [p \in Procs |-> "idle"]
    /\ loc = [p \in Procs |-> NoLocals]
    /\ txn = [p \in Procs |-> IdleTxn]
    /\ hist = [p \in Procs |-> NoCall]
    /\ agg = [state |-> "ready", result |-> <<>>]
    /\ gen = NoGen
    /\ load = NoRun
    /\ conv = NoRun
    /\ plot = NoRun
    /\ watch = NoRun
    /\ setup = NoRun

\* result = order_items.aggregate(pipeline).to_list(length=None)
RevenueByCategory ==
    /\ agg.state = "ready"
    /\ \E r \in revenue_by_category(order_items, products) :
          agg' = [state |-> "revenue", result |-> r]
    /\ UNCHANGED <<db, gen, load, conv, plot, watch, setup>>

\* result = order_items.aggregate(pipeline).to_list()
TopProducts ==
    /\ agg.state = "ready"
    /\ \E r \in top_products_per_order(order_items, products) :
          agg' = [state |-> "top", result |-> r]
    /\ UNCHANGED <<db, gen, load, conv, plot, watch, setup>>

NextAgg == RevenueByCategory \/ TopProducts

SpecAgg == InitAgg /\ [][NextAgg]_vars

(***************************************************************************)
(* Properties of the pipelines.                                            *)
(***************************************************************************)
\* The product an order item refers to.
ProductOf(i) == CHOOSE p \in products : p.product_id = i.product_id

\* The order items whose product exists.
Matching == {i \in order_items : \E p \in products : p.product_id = i.product_id}

\* Quantity times the price of the product, summed over a set of order items.
RECURSIVE ManualRevenue(_)
ManualRevenue(items) ==
    IF items = {} THEN 0
    ELSE LET i == CHOOSE x \in items : TRUE
         IN  i.quantity[1] * ProductOf(i).price[1] + ManualRevenue(items \ {i})

\* C11: the revenue pipeline returns one row for each product category that
\* has an order item, with total_revenue the sum over the category's order
\* items of quantity times the price of the product in products, and the
\* rows are in non-increasing order of total_revenue.
C11_RevenueByCategory ==
    agg.state = "revenue" =>
        LET r == agg.result
            cats == {ProductOf(i).category : i \in Matching}
        IN  /\ Len(r) = Cardinality(cats)
            /\ \A c \in cats :
                  \E k \in 1..Len(r) :
                      r[k] = [product_category |-> c,
                              total_revenue |->
                                  Num(ManualRevenue({i \in Matching :
                                                        ProductOf(i).category = c}))]
            /\ \A k \in 1..(Len(r) - 1) :
                  r[k].total_revenue[1] >= r[k + 1].total_revenue[1]

\* Two categories, one of them holding an item sold at another price than
\* the product's, and an item without a product.
C11_Witness ==
    /\ agg.state = "revenue"
    /\ Len(agg.result) >= 2
    /\ \E i \in Matching : i.price # ProductOf(i).price
    /\ Matching # order_items

\* The entry of top_products an order item gives.
ManualEntry(i) ==
    [product_name |-> ProductOf(i).product_name,
     price |-> ProductOf(i).price,
     quantity |-> i.quantity,
     total_price |-> Num(i.quantity[1] * ProductOf(i).price[1])]

\* The order items with a product that belong to an order.
MatchingOf(o) == {i \in Matching : i.order_id = o}

\* C20: the top-3 pipeline returns, for every order with at least one order
\* item whose product exists, one row whose top_products holds min(3, k)
\* entries (k the number of such items of the order): the items with the
\* highest product prices, in non-increasing order of price, each with
\* total_price the quantity times the price of the product.
C20_TopThreePerOrder ==
    agg.state = "top" =>
        LET r == agg.result
            ids == {i.order_id : i \in Matching}
        IN  /\ Len(r) = Cardinality(ids)
            /\ \A o \in ids :
                  \E k \in 1..Len(r) :
                      LET tp == r[k].top_products
                          mine == MatchingOf(o)
                          n == IF Cardinality(mine) < 3 THEN Cardinality(mine) ELSE 3
                      IN  /\ DOMAIN r[k] = {"order_id", "top_products"}
                          /\ r[k].order_id = o
                          /\ Len(tp) = n
                          /\ \A j \in 1..(n - 1) : tp[j].price[1] >= tp[j + 1].price[1]
                          /\ \E f \in [1..n -> mine] :
                                /\ \A a, b \in 1..n : f[a] = f[b] => a = b
                                /\ \A j \in 1..n : tp[j] = ManualEntry(f[j])
                                /\ \A i \in mine :
                                      (\A j \in 1..n : f[j] # i)
                                          => ProductOf(i).price[1] <= tp[n].price[1]

\* An order with four items whose products exist, cut to three, beside
\* another order.
C20_Witness ==
    /\ agg.state = "top"
    /\ Len(agg.result) >= 2
    /\ \E k \in 1..Len(agg.result) :
          /\ Cardinality(MatchingOf(agg.result[k].order_id)) = 4
          /\ Len(agg.result[k].top_products) = 3


(***************************************************************************)
(* utils/config.py and notebook/utils/handle_plot.py                       *)
(***************************************************************************)
\* os.path.join of two components (posix).
path_join(a, b) ==
    IF b # <<>> /\ b[1] = "/" THEN b
    ELSE IF a = <<>> \/ a[Len(a)] = "/" THEN a \o b
    ELSE a \o <<"/">> \o b

BASE_DIR == <<".", ".", "/">>

PLOTS == path_join(BASE_DIR, <<"s", "c", "r", "e", "e", "n", "s", "h", "o", "t", "s", "/">>)

format == <<"w", "e", "b", "p">>

INTERACTIVE == FALSE

\* A table that leaves ':' alone.
replace_dict_no_colon ==
    [c \in {",", "!", "?", " "} |-> <<"_">>]

\* replace_dict = {',': '_', '!': '_', '?': '_', ' ': '_', ':': '_'}
replace_dict ==
    [c \in {",", "!", "?", " ", ":"} |-> <<"_">>]

\* One '_' for each run of replaced characters.
RECURSIVE translate_collapse(_, _)
translate_collapse(str, table) ==
    IF str = <<>> THEN <<>>
    ELSE IF str[1] \in DOMAIN table
         THEN IF Len(str) > 1 /\ str[2] \in DOMAIN table
              THEN translate_collapse(Tail(str), table)
              ELSE table[str[1]] \o translate_collapse(Tail(str), table)
         ELSE <<str[1]>> \o translate_collapse(Tail(str), table)

\* str.translate(table): each character the table has is replaced by its
\* entry, every other character is kept.
RECURSIVE translate(_, _)
translate(str, table) ==
    IF str = <<>> THEN <<>>
    ELSE (IF str[1] \in DOMAIN table THEN table[str[1]] ELSE <<str[1]>>)
             \o translate(Tail(str), table)

\* filename = save_dir + title.translate(translation_table) + '.' + format
title_to_filename(title, save_dir) ==
    save_dir \o translate(title, replace_dict) \o <<".">> \o format

\* The titles and directories title_to_filename is run on.
MaxTitle == 2

TitleChars == {",", "!", "?", " ", ":", "/", ".", "a", "_"}

RevenueTitle == <<"R", "e", "v", "e", "n", "u", "e", ":", " ", "Q", "1", ",", " ", "2", "0", "2", "4", "!">>

Titles == UNION {[1..n -> TitleChars] : n \in 0..MaxTitle} \cup {RevenueTitle}

SaveDirs == {PLOTS, <<>>, <<"o", "u", "t">>}

PlotOff ==
    /\ gen = NoGen
    /\ load = NoRun
    /\ conv = NoRun
    /\ agg = NoRun
    /\ watch = NoRun
    /\ setup = NoRun
    /\ DbOff

InitName ==
    /\ \E t \in Titles, d \in SaveDirs :
          plot = [state |-> "ready", title |-> t, save_dir |-> d, filename |-> <<>>]
    /\ PlotOff

TitleToFilename ==
    /\ plot.state = "ready"
    /\ plot' = [plot EXCEPT !.state = "named",
                            !.filename = title_to_filename(plot.title, plot.save_dir)]
    /\ UNCHANGED <<db, gen, load, conv, agg, watch, setup>>

SpecName == InitName /\ [][TitleToFilename]_vars

\* C12: title_to_filename returns save_dir, then the title with each of
\* ',', '!', '?', ' ' and ':' replaced by one '_' and every other character
\* kept in its place, then '.' and the configured format; the translated
\* part is as long as the title.
C12_TitleToFilename ==
    plot.state = "named" =>
        LET t == plot.title
            d == plot.save_dir
            f == plot.filename
        IN  /\ Len(f) = Len(d) + Len(t) + 1 + Len(format)
            /\ SubSeq(f, 1, Len(d)) = d
            /\ \A i \in 1..Len(t) :
                  f[Len(d) + i] = IF t[i] \in {",", "!", "?", " ", ":"} THEN "_" ELSE t[i]
            /\ f[Len(d) + Len(t) + 1] = "."
            /\ SubSeq(f, Len(d) + Len(t) + 2, Len(f)) = <<"w", "e", "b", "p">>

\* A title with ':' and '/', named in the configured directory.
C12_Witness ==
    /\ plot.state = "named"
    /\ plot.title = <<":", "/">>
    /\ plot.save_dir = <<".", ".", "/", "s", "c", "r", "e", "e", "n", "s", "h", "o", "t", "s", "/">>
    /\ plot.filename = <<".", ".", "/", "s", "c", "r", "e", "e", "n", "s", "h", "o", "t", "s", "/">> \o <<"_", "/", ".", "w", "e", "b", "p">>

\* C13 as stated: the title "Revenue: Q1, 2024!" gives the filename
\* "Revenue_Q1_2024_.webp" (in the directory it is saved to).
C13_RevenueExample ==
    (plot.state = "named" /\ plot.title = RevenueTitle)
        => plot.filename = plot.save_dir \o <<"R", "e", "v", "e", "n", "u", "e", "_", "Q", "1", "_", "2", "0", "2", "4", "_", ".", "w", "e", "b", "p">>

\* C13 as amended: the title "Revenue: Q1, 2024!" gives, after the
\* directory, "Revenue__Q1__2024_.webp": one '_' for each replaced
\* character, so ": " and ", " give two each.
C13_RevenueExampleTwoUnderscores ==
    (plot.state = "named" /\ plot.title = RevenueTitle)
        => plot.filename = plot.save_dir \o <<"R", "e", "v", "e", "n", "u", "e", "_", "_", "Q", "1", "_", "_", "2", "0", "2", "4", "_", ".", "w", "e", "b", "p">>

C13_Witness ==
    /\ plot.state = "named"
    /\ plot.title = RevenueTitle
    /\ plot.save_dir = <<>>
    /\ Len(plot.filename) = 23


(***************************************************************************)
(* The orders fixture goes through the validator of the orders collection, *)
(* and create_order is called afterwards.                                  *)
(***************************************************************************)
\* collection.insert_many(documents), ordered: the documents are written one
\* after the other up to the first one the collection refuses (validator,
\* or an _id already there); an empty list is refused by the driver.
RECURSIVE insert_rest(_, _, _)
insert_rest(coll, documents, valid) ==
    IF documents = <<>> THEN [raised |-> FALSE, coll |-> coll]
    ELSE LET d == Head(documents)
         IN  IF d \in valid /\ \A e \in coll : e["_id"] # d["_id"]
             THEN insert_rest(coll \cup {d}, Tail(documents), valid)
             ELSE [raised |-> TRUE, coll |-> coll]

insert_many(coll, documents, valid) ==
    IF documents = <<>> THEN [raised |-> TRUE, coll |-> coll]
    ELSE insert_rest(coll, documents, valid)

MaxOrdersData == 2

\* Orders of a fixture: good ones, and ones whose status is outside the
\* enum, spelt otherwise, or missing.
OrdersDataDocs ==
    {FixtureOrder(1),
     [FixtureOrder(2) EXCEPT !.status = "Shipped"],
     [FixtureOrder(3) EXCEPT !.status = "Pending"],
     [FixtureOrder(4) EXCEPT !.status = "delivered"],
     [_id |-> <<0, 1, 5>>, order_id |-> Num(5005), customer_id |-> Num(1),
      order_date |-> strptime(FixtureDate)]}

InitStatus ==
    /\ orders = {}
    /\ order_items = {}
    /\ products = FixtureProducts
    /\ customers = FixtureCustomers
    /\ pc = [p \in Procs |-> "idle"]
    /\ loc = [p \in Procs |-> NoLocals]
    /\ txn = [p \in Procs |-> IdleTxn]
    /\ hist = [p \in Procs |-> NoCall]
    /\ \E l \in UNION {[1..n -> OrdersDataDocs] : n \in 0..MaxOrdersData} :
          setup = [state |-> "insert", orders_data |-> l]
    /\ gen = NoGen
    /\ load = NoRun
    /\ conv = NoRun
    /\ agg = NoRun
    /\ plot = NoRun
    /\ watch = NoRun

\* orders.insert_many(orders_data)
InsertManyOrders ==
    /\ setup.state = "insert"
    /\ LET r == insert_many(orders, setup.orders_data,
                            {d \in {setup.orders_data[k] : k \in 1..Len(setup.orders_data)} :
                                orders_validator(d)})
       IN  /\ orders' = r.coll
           /\ setup' = [setup EXCEPT !.state = IF r.raised THEN "raised" ELSE "inserted"]
    /\ UNCHANGED <<order_items, products, customers, pc, loc, txn, hist,
                   gen, load, conv, agg, plot, watch>>

\* A cell further down calls create_order.
CallAfterInsert ==
    /\ setup.state \in {"inserted", "raised"}
    /\ Quiet
    /\ \E c \in CustomerIds, po \in ConcProductOrders : Call(1, c, po)

NextStatus ==
    \/ InsertManyOrders
    \/ CallAfterInsert
    \/ GenOrderId(1)
    \/ InsertOrder(1)
    \/ GenItemId(1)
    \/ InsertItem(1)
    \/ Commit(1)
    \/ Abort(1)

SpecStatus == InitStatus /\ [][NextStatus]_vars

\* The documents of the orders fixture.
OrdersData == {setup.orders_data[k] : k \in 1..Len(setup.orders_data)}

\* C14: every document of orders, committed or written in an open
\* transaction, has a status among Shipped, Processing, Cancelled and
\* Delivered; a fixture document with another status or none is not in the
\* collection; every order create_order wrote has status "Processing".
C14_StatusEnum ==
    /\ \A o \in orders \cup PendingOrders :
          /\ "status" \in DOMAIN o
          /\ o.status \in {"Shipped", "Processing", "Cancelled", "Delivered"}
    /\ \A d \in OrdersData :
          ("status" \notin DOMAIN d
              \/ d.status \notin {"Shipped", "Processing", "Cancelled", "Delivered"})
             => d \notin orders
    /\ \A o \in (orders \cup PendingOrders) \ OrdersData : o.status = "Processing"

\* An order of the fixture got in, the next one had status "Pending" and
\* was refused, and create_order then committed an order.
C14_Witness ==
    /\ setup.state = "raised"
    /\ \E d \in OrdersData : d \in orders
    /\ \E d \in OrdersData : "status" \in DOMAIN d /\ d.status = "Pending"
    /\ \E o \in orders \ OrdersData : o.status = "Processing"


(***************************************************************************)
(* The products fixture goes through the validator of the products         *)
(* collection.                                                             *)
(***************************************************************************)
\* $jsonSchema of products: price is an int with minimum 0.
products_validator(doc) ==
    /\ Required(doc, {"product_id", "product_name", "category", "price"})
    /\ IsNum(doc.product_id)
    /\ doc.product_name # ""
    /\ doc.category # ""
    /\ IsNum(doc.price) /\ doc.price[1] >= 0

MaxProductsData == 2

\* A price that is a double.
Double(units, cents) == <<"double", units, cents>>

ProductDoc(n, name, price) ==
    [_id |-> <<0, 3, n>>, product_id |-> Num(n), product_name |-> name,
     category |-> "Electronics", price |-> price]

\* Products of a fixture: prices that are positive, zero, negative, no int,
\* null or missing, and a product without a name.
ProductsDataDocs ==
    {ProductDoc(101, "Laptop", Num(1200)),
     ProductDoc(102, "Sticker", Num(1)),
     ProductDoc(103, "Sample", Num(0)),
     ProductDoc(104, "Refund", Num(-5)),
     ProductDoc(105, "Cable", Double(19, 99)),
     ProductDoc(106, "Lamp", None),
     [_id |-> <<0, 3, 107>>, product_id |-> Num(107), product_name |-> "Desk",
      category |-> "Furniture"],
     ProductDoc(108, "", Num(300))}

InitProducts ==
    /\ DbOff
    /\ \E l \in UNION {[1..n -> ProductsDataDocs] : n \in 0..MaxProductsData} :
          setup = [state |-> "insert", products_data |-> l]
    /\ gen = NoGen
    /\ load = NoRun
    /\ conv = NoRun
    /\ agg = NoRun
    /\ plot = NoRun
    /\ watch = NoRun

\* products.insert_many(products_data)
InsertManyProducts ==
    /\ setup.state = "insert"
    /\ LET r == insert_many(products, setup.products_data,
                            {d \in {setup.products_data[k] :
                                       k \in 1..Len(setup.products_data)} :
                                products_validator(d)})
       IN  /\ products' = r.coll
           /\ setup' = [setup EXCEPT !.state = IF r.raised THEN "raised" ELSE "inserted"]
    /\ UNCHANGED <<orders, order_items, customers, pc, loc, txn, hist,
                   gen, load, conv, agg, plot, watch>>

SpecProducts == InitProducts /\ [][InsertManyProducts]_vars

\* C15: every document in products has a price that is an integer greater
\* than 0: a write whose price is missing, no integer, or not positive
\* (0 included) is rejected.
C15_PricePositive ==
    \A d \in products :
        /\ "price" \in DOMAIN d
        /\ IsNum(d.price)
        /\ d.price[1] > 0


(***************************************************************************)
(* watch_orders.  The change stream is the environment: its iterator       *)
(* blocks until the server has an event, ends when the stream is closed    *)
(* (the collection is dropped and the stream invalidated), and may raise.  *)
(***************************************************************************)
MaxEvents == 3

ChangeTypes == {"insert", "update", "delete"}

StreamErrors == {"ConnectionFailure", "OperationFailure"}

\* The change is dropped without a line.
print_nothing(printed, change) == printed

\* print("Change detected:", change)
print_change(printed, change) == Append(printed, <<"Change detected:", change>>)

\* print("Error connecting to MongoDB:", e) / print("An error occurred:", e)
print_error(printed, e) ==
    Append(printed,
           <<IF e = "ConnectionFailure" THEN "Error connecting to MongoDB:"
             ELSE "An error occurred:", e>>)

InitWatch ==
    /\ DbOff
    /\ watch = [state |-> "call", alive |-> FALSE, error |-> "none",
                delivered |-> <<>>, change |-> "none", printed |-> <<>>,
                missed |-> <<>>]
    /\ gen = NoGen
    /\ load = NoRun
    /\ conv = NoRun
    /\ agg = NoRun
    /\ plot = NoRun
    /\ setup = NoRun

\* with orders.watch() as stream: the stream opens, or the call raises.
Watch ==
    /\ watch.state = "call"
    /\ \/ watch' = [watch EXCEPT !.state = "next", !.alive = TRUE]
       \/ \E e \in StreamErrors : watch' = [watch EXCEPT !.state = "except", !.error = e]
    /\ UNCHANGED <<db, gen, load, conv, agg, plot, setup>>

\* for change in stream: the iterator hands out the next event.
StreamNext ==
    /\ watch.state = "next"
    /\ watch.alive
    /\ Len(watch.delivered) < MaxEvents
    /\ \E c \in ChangeTypes :
          watch' = [watch EXCEPT !.state = "body", !.change = c,
                                 !.delivered = Append(@, c)]
    /\ UNCHANGED <<db, gen, load, conv, agg, plot, setup>>

\* The loop body.
PrintChange ==
    /\ watch.state = "body"
    /\ watch' = [watch EXCEPT !.state = "next",
                              !.printed = print_change(@, watch.change)]
    /\ UNCHANGED <<db, gen, load, conv, agg, plot, setup>>

\* The stream is closed: the iterator stops, the loop and the with block
\* end, and watch_orders returns.
StreamClosed ==
    /\ watch.state = "next"
    /\ watch' = [watch EXCEPT !.state = "returned", !.alive = FALSE]
    /\ UNCHANGED <<db, gen, load, conv, agg, plot, setup>>

\* The iterator raises.
StreamRaises ==
    /\ watch.state = "next"
    /\ \E e \in StreamErrors : watch' = [watch EXCEPT !.state = "except", !.error = e]
    /\ UNCHANGED <<db, gen, load, conv, agg, plot, setup>>

\* The handler opens the stream again.
except_reopen(e) == "call"

\* Where an except handler leaves watch_orders: at its end.
except_exit(e) == "returned"

\* except ConnectionFailure / except Exception: print, and return.
WatchExcept ==
    /\ watch.state = "except"
    /\ watch' = [watch EXCEPT !.state = except_exit(watch.error), !.alive = FALSE,
                              !.printed = print_error(@, watch.error)]
    /\ UNCHANGED <<db, gen, load, conv, agg, plot, setup>>

\* The orders collection changes while no stream is open on it.
OrdersChange ==
    /\ watch.state \in {"except", "returned"}
    /\ Len(watch.missed) < MaxEvents
    /\ \E c \in ChangeTypes : watch' = [watch EXCEPT !.missed = Append(@, c)]
    /\ UNCHANGED <<db, gen, load, conv, agg, plot, setup>>

NextWatch ==
    \/ OrdersChange
    \/ Watch
    \/ StreamNext
    \/ PrintChange
    \/ StreamClosed
    \/ StreamRaises
    \/ WatchExcept

SpecWatch == InitWatch /\ [][NextWatch]_vars

\* The changes among the printed lines, in the order of the lines.
RECURSIVE PrintedChanges(_)
PrintedChanges(printed) ==
    IF printed = <<>> THEN <<>>
    ELSE (IF printed[1][1] = "Change detected:" THEN <<printed[1][2]>> ELSE <<>>)
             \o PrintedChanges(Tail(printed))

\* C16: watch_orders returns only after the stream was closed or raised;
\* the changes printed are the changes delivered, once each and in the
\* order of delivery, and when the next one is asked for every change
\* delivered so far has been printed (in the loop body only the last one is
\* still to be printed).
C16_WatcherPrintsEachChange ==
    /\ watch.state = "returned" => (~watch.alive \/ watch.error # "none")
    /\ (watch.state \in {"next", "body"} /\ watch.error = "none") => watch.alive
    /\ watch.state = "body" =>
          /\ watch.delivered # <<>>
          /\ watch.change = watch.delivered[Len(watch.delivered)]
          /\ PrintedChanges(watch.printed)
                = SubSeq(watch.delivered, 1, Len(watch.delivered) - 1)
    /\ watch.state # "body" => PrintedChanges(watch.printed) = watch.delivered

\* The stream is open, two changes were delivered and printed, and the
\* watcher waits for the third.
C16_Witness ==
    /\ watch.state = "next"
    /\ watch.alive
    /\ Len(watch.delivered) = 2
    /\ watch.delivered[1] # watch.delivered[2]
    /\ Len(watch.printed) = 2


(***************************************************************************)
(* The set-up cells: the four fixtures are loaded (and the orders          *)
(* converted), then written with insert_many through the validators.  The  *)
(* documents are JSON values as load_json reads them.  An exception no     *)
(* cell catches ends the run.                                              *)
(***************************************************************************)
\* The BSON type the driver gives a value.
bson_type(v) ==
    CASE v.type = "number" ->
             IF v.num >= -2147483647 - 1 /\ v.num <= 2147483647 THEN "int" ELSE "long"
      [] v.type = "string" -> "string"
      [] v.type = "object" -> "object"
      [] v.type = "ObjectId" -> "objectId"
      [] v.type = "datetime" -> "date"
      [] OTHER -> "null"

\* The pattern of email, "^\S+@\S+\.\S+$".
email_pattern(str) ==
    /\ \A k \in 1..Len(str) : str[k] \notin {" ", "\t", "\n"}
    /\ \E i, j \in 1..Len(str) :
          /\ 2 <= i /\ i + 2 <= j /\ j < Len(str)
          /\ str[i] = "@"
          /\ str[j] = "."

\* $jsonSchema: a value against a rule.
RECURSIVE json_schema(_, _)
json_schema(rule, v) ==
    /\ "bsonType" \in DOMAIN rule => bson_type(v) = rule.bsonType
    /\ ("minimum" \in DOMAIN rule /\ v.type = "number") => v.num >= rule.minimum
    /\ ("minLength" \in DOMAIN rule /\ v.type = "string") => Len(v.str) >= rule.minLength
    /\ ("pattern" \in DOMAIN rule /\ v.type = "string") => email_pattern(v.str)
    /\ "enum" \in DOMAIN rule => v \in rule.enum
    /\ ("required" \in DOMAIN rule /\ v.type = "object") => rule.required \subseteq DOMAIN v.obj
    /\ ("properties" \in DOMAIN rule /\ v.type = "object") =>
          \A f \in DOMAIN rule.properties \cap DOMAIN v.obj :
              json_schema(rule.properties[f], v.obj[f])

customers_schema ==
    [bsonType |-> "object",
     required |-> {"customer_id", "name", "email", "address"},
     properties |->
         [_id |-> [bsonType |-> "objectId"],
          customer_id |-> [bsonType |-> "int"],
          name |-> [bsonType |-> "string", minLength |-> 1],
          email |-> [bsonType |-> "string", pattern |-> "^\\S+@\\S+\\.\\S+$"],
          address |-> [bsonType |-> "object",
                       required |-> {"street", "city", "state"},
                       properties |-> [street |-> [bsonType |-> "string"],
                                       city |-> [bsonType |-> "string"],
                                       state |-> [bsonType |-> "string"]]]]]

products_schema ==
    [bsonType |-> "object",
     required |-> {"product_id", "product_name", "category", "price"},
     properties |->
         [_id |-> [bsonType |-> "objectId"],
          product_id |-> [bsonType |-> "int"],
          product_name |-> [bsonType |-> "string", minLength |-> 1],
          category |-> [bsonType |-> "string", minLength |-> 1],
          price |-> [bsonType |-> "int", minimum |-> 0]]]

orders_schema ==
    [bsonType |-> "object",
     required |-> {"order_id", "customer_id", "order_date", "status"},
     properties |->
         [_id |-> [bsonType |-> "objectId"],
          order_id |-> [bsonType |-> "int"],
          customer_id |-> [bsonType |-> "int"],
          order_date |-> [bsonType |-> "date"],
          status |-> [enum |-> {Str(<<"S", "h", "i", "p", "p", "e", "d">>), Str(<<"P", "r", "o", "c", "e", "s", "s", "i", "n", "g">>),
                                Str(<<"C", "a", "n", "c", "e", "l", "l", "e", "d">>), Str(<<"D", "e", "l", "i", "v", "e", "r", "e", "d">>)}]]]

order_items_schema ==
    [bsonType |-> "object",
     required |-> {"order_item_id", "order_id", "product_id", "quantity", "price"},
     properties |->
         [_id |-> [bsonType |-> "objectId"],
          order_item_id |-> [bsonType |-> "int"],
          order_id |-> [bsonType |-> "int"],
          product_id |-> [bsonType |-> "int"],
          quantity |-> [bsonType |-> "int", minimum |-> 1],
          price |-> [bsonType |-> "int", minimum |-> 0]]]

FixtureNames == {"customers", "products", "orders", "order_items"}

Schemas ==
    [customers |-> customers_schema, products |-> products_schema,
     orders |-> orders_schema, order_items |-> order_items_schema]

\* The documents of a list that the validator of a collection lets in.
Valid(name, documents) ==
    {d \in {documents[k] : k \in 1..Len(documents)} : json_schema(Schemas[name], Obj(d))}

\* A loop over the documents that the first raise ends: the list of the
\* documents as the body left them, when no body raised.
for_each(results) ==
    IF \E k \in 1..Len(results) : results[k].raised
    THEN [raised |-> TRUE, data |-> <<>>]
    ELSE [raised |-> FALSE, data |-> [k \in 1..Len(results) |-> results[k].doc]]

\* load_json on the documents of a file.
load_json(json_data) ==
    for_each([k \in 1..Len(json_data) |-> load_document(json_data[k])])

\* convert_date on a list of documents.
convert_date(json_data) ==
    for_each([k \in 1..Len(json_data) |-> convert_document(json_data[k])])

\* Each fixture is written as soon as it is loaded.
next_cell_interleaved(cell) ==
    CASE cell = "load_customers" -> "insert_customers"
      [] cell = "insert_customers" -> "load_products"
      [] cell = "load_products" -> "insert_products"
      [] cell = "insert_products" -> "load_orders"
      [] cell = "load_orders" -> "insert_orders"
      [] cell = "insert_orders" -> "load_order_items"
      [] cell = "load_order_items" -> "insert_order_items"
      [] OTHER -> "done"

\* The statements in the order of the script: four loads, then four
\* insert_many.
next_cell(cell) ==
    CASE cell = "load_customers" -> "load_products"
      [] cell = "load_products" -> "load_orders"
      [] cell = "load_orders" -> "load_order_items"
      [] cell = "load_order_items" -> "insert_customers"
      [] cell = "insert_customers" -> "insert_products"
      [] cell = "insert_products" -> "insert_orders"
      [] cell = "insert_orders" -> "insert_order_items"
      [] OTHER -> "done"

MaxFixtureDocs == 1

GoodDate == strftime(Instant(2024, 12, 20, 10, 0, 0))

OidOf(oid) == Obj([k \in {"$oid"} |-> Str(oid)])

CustomersFile ==
    {[_id |-> OidOf(Oid1), customer_id |-> JNum(1), name |-> Str(<<"A", "l", "i", "c", "e">>),
      email |-> Str(<<"a", "l", "@", "e", "x", ".", "i", "o">>),
      address |-> Obj([street |-> Str(<<"1", " ", "E", "l", "m">>), city |-> Str(<<"T", "r", "o", "y">>), state |-> Str(<<"I", "L">>)])],
     [customer_id |-> JNum(2), name |-> Str(<<"A", "l", "i", "c", "e">>), email |-> Str(<<"a", "l", "@", "e", "x", ".", "i", "o">>),
      address |-> Obj([street |-> Str(<<"1", " ", "E", "l", "m">>), city |-> Str(<<"T", "r", "o", "y">>), state |-> Str(<<"I", "L">>)])]}

ProductsFile ==
    {[_id |-> OidOf(Oid1), product_id |-> JNum(101), product_name |-> Str(<<"L", "a", "p", "t", "o", "p">>),
      category |-> Str(<<"T", "e", "c", "h">>), price |-> JNum(1200)],
     [_id |-> OidOf(Oid2), product_id |-> JNum(102), product_name |-> Str(<<"L", "a", "p", "t", "o", "p">>),
      category |-> Str(<<"T", "e", "c", "h">>), price |-> JNum(800), delivery_date |-> Str(NoZone)]}

OrdersFile ==
    {[_id |-> OidOf(Oid1), order_id |-> JNum(5001), customer_id |-> JNum(1),
      order_date |-> Str(GoodDate), status |-> Str(<<"D", "e", "l", "i", "v", "e", "r", "e", "d">>)],
     [_id |-> OidOf(Oid2), order_id |-> JNum(5002), customer_id |-> JNum(1),
      order_date |-> Str(NotADay), status |-> Str(<<"D", "e", "l", "i", "v", "e", "r", "e", "d">>)],
     [order_id |-> JNum(5003), customer_id |-> JNum(1),
      order_date |-> Str(GoodDate), status |-> Str(<<"D", "e", "l", "i", "v", "e", "r", "e", "d">>)]}

OrderItemsFile ==
    {[_id |-> OidOf(Oid1), order_item_id |-> JNum(9001), order_id |-> JNum(5001),
      product_id |-> JNum(101), quantity |-> JNum(2), price |-> JNum(1200)],
     [order_item_id |-> JNum(9002), order_id |-> JNum(5001),
      product_id |-> JNum(101), quantity |-> JNum(1), price |-> JNum(1200)]}

FileLists(S) == UNION {[1..n -> S] : n \in 0..MaxFixtureDocs}

InitSetup ==
    /\ DbOff
    /\ \E c \in FileLists(CustomersFile), p \in FileLists(ProductsFile),
          o \in FileLists(OrdersFile), i \in FileLists(OrderItemsFile) :
          setup = [pc |-> "load_customers", raised_by |-> "none",
                   files |-> [customers |-> c, products |-> p, orders |-> o,
                              order_items |-> i],
                   data |-> [n \in FixtureNames |-> <<>>]]
    /\ gen = NoGen
    /\ load = NoRun
    /\ conv = NoRun
    /\ agg = NoRun
    /\ plot = NoRun
    /\ watch = NoRun

\* <name>_data = load_json(<NAME>_DATA)
LoadCell(name) ==
    LET r == load_json(setup.files[name])
    IN  setup' = IF r.raised
                 THEN [setup EXCEPT !.pc = "halted", !.raised_by = "load_json"]
                 ELSE [setup EXCEPT !.pc = next_cell(setup.pc), !.data[name] = r.data]

LoadCustomers ==
    /\ setup.pc = "load_customers"
    /\ LoadCell("customers")
    /\ UNCHANGED <<db, gen, load, conv, agg, plot, watch>>

LoadProducts ==
    /\ setup.pc = "load_products"
    /\ LoadCell("products")
    /\ UNCHANGED <<db, gen, load, conv, agg, plot, watch>>

\* orders_data = convert_date(load_json(ORDERS_DATA))
LoadOrders ==
    /\ setup.pc = "load_orders"
    /\ \E r \in {load_json(setup.files.orders)} :
          \E c \in {convert_date(r.data)} :
              setup' = IF r.raised
                       THEN [setup EXCEPT !.pc = "halted", !.raised_by = "load_json"]
                       ELSE IF c.raised
                       THEN [setup EXCEPT !.pc = "halted", !.raised_by = "convert_date"]
                       ELSE [setup EXCEPT !.pc = next_cell(setup.pc),
                                          !.data.orders = c.data]
    /\ UNCHANGED <<db, gen, load, conv, agg, plot, watch>>

LoadOrderItems ==
    /\ setup.pc = "load_order_items"
    /\ LoadCell("order_items")
    /\ UNCHANGED <<db, gen, load, conv, agg, plot, watch>>

\* <name>.insert_many(<name>_data): what the collection holds afterwards.
InsertCell(name, coll) ==
    LET r == insert_many(coll, setup.data[name], Valid(name, setup.data[name]))
    IN  [coll |-> r.coll,
         setup |-> IF r.raised
                   THEN [setup EXCEPT !.pc = "halted", !.raised_by = "insert_many"]
                   ELSE [setup EXCEPT !.pc = next_cell(setup.pc)]]

InsertCustomers ==
    /\ setup.pc = "insert_customers"
    /\ customers' = InsertCell("customers", customers).coll
    /\ setup' = InsertCell("customers", customers).setup
    /\ UNCHANGED <<orders, order_items, products, pc, loc, txn, hist,
                   gen, load, conv, agg, plot, watch>>

InsertProducts ==
    /\ setup.pc = "insert_products"
    /\ products' = InsertCell("products", products).coll
    /\ setup' = InsertCell("products", products).setup
    /\ UNCHANGED <<orders, order_items, customers, pc, loc, txn, hist,
                   gen, load, conv, agg, plot, watch>>

InsertOrders ==
    /\ setup.pc = "insert_orders"
    /\ orders' = InsertCell("orders", orders).coll
    /\ setup' = InsertCell("orders", orders).setup
    /\ UNCHANGED <<order_items, products, customers, pc, loc, txn, hist,
                   gen, load, conv, agg, plot, watch>>

InsertOrderItems ==
    /\ setup.pc = "insert_order_items"
    /\ order_items' = InsertCell("order_items", order_items).coll
    /\ setup' = InsertCell("order_items", order_items).setup
    /\ UNCHANGED <<orders, products, customers, pc, loc, txn, hist,
                   gen, load, conv, agg, plot, watch>>

NextSetup ==
    \/ LoadCustomers
    \/ LoadProducts
    \/ LoadOrders
    \/ LoadOrderItems
    \/ InsertCustomers
    \/ InsertProducts
    \/ InsertOrders
    \/ InsertOrderItems

SpecSetup == InitSetup /\ [][NextSetup]_vars

\* The documents of a fixture file.
FileDocs(name) == {setup.files[name][k] : k \in 1..Len(setup.files[name])}

\* A document has an order_date or delivery_date string that is none of the
\* strings in the format.
BadDate(document) ==
    \E f \in {"order_date", "delivery_date"} \cap DOMAIN document :
        /\ document[f].type = "string"
        /\ document[f].str \notin {t.str : t \in DateTable}

\* Nothing of any fixture is in any collection, and no insert_many was
\* reached; the run ended in load_json or convert_date if it ended.
LoadingHalted ==
    /\ setup.pc \in {"load_customers", "load_products", "load_orders",
                     "load_order_items", "halted"}
    /\ setup.pc = "halted" => setup.raised_by \in {"load_json", "convert_date"}
    /\ customers = {} /\ products = {} /\ orders = {} /\ order_items = {}

\* The loads are over.
LoadsOver == setup.pc \notin {"load_customers", "load_products", "load_orders",
                              "load_order_items"}

\* C17 as stated: when a document of any of the four fixtures has no _id,
\* or an order_date or delivery_date string not in the format, the loads
\* end in a raise of load_json or convert_date, and no document of any
\* fixture is inserted.
C17_MalformedHaltsLoading ==
    (\E n \in FixtureNames : \E d \in FileDocs(n) : "_id" \notin DOMAIN d \/ BadDate(d))
        => (LoadingHalted /\ (LoadsOver => setup.pc = "halted"))

\* C17 as amended: the same, with the date strings being those of the
\* orders fixture, the only one convert_date is applied to.
C17_MalformedOrdersHaltLoading ==
    (\/ \E n \in FixtureNames : \E d \in FileDocs(n) : "_id" \notin DOMAIN d
     \/ \E d \in FileDocs("orders") : BadDate(d))
        => (LoadingHalted /\ (LoadsOver => setup.pc = "halted"))

\* Customers and products were loaded, an order has a date that is no day,
\* and convert_date ended the run.
C17_Witness ==
    /\ setup.pc = "halted"
    /\ setup.raised_by = "convert_date"
    /\ setup.data.customers # <<>>
    /\ setup.data.products # <<>>
    /\ \E d \in FileDocs("orders") : BadDate(d)
    /\ customers = {} /\ products = {} /\ orders = {} /\ order_items = {}


(***************************************************************************)
(* show_plot.  The directory of saved plots is a function from the names   *)
(* of the files in it to their contents; writing an image may fail (no     *)
(* such directory, no renderer), loading one fails when there is no file.  *)
(***************************************************************************)
\* save_only is looked at before interactive.
branch_save_first(fig, save_only, display_only, interactive) ==
    IF fig.kind = "None" THEN "none"
    ELSE IF save_only THEN "save_only"
    ELSE IF interactive THEN "interactive"
    ELSE IF display_only THEN "display_only"
    ELSE "save_and_display"

\* display_only is not looked at.
branch_no_display_only(fig, save_only, display_only, interactive) ==
    IF fig.kind = "None" THEN "none"
    ELSE IF interactive THEN "interactive"
    ELSE IF save_only THEN "save_only"
    ELSE "save_and_display"

\* display_only is looked at before save_only.
branch_display_first(fig, save_only, display_only, interactive) ==
    IF fig.kind = "None" THEN "none"
    ELSE IF interactive THEN "interactive"
    ELSE IF display_only THEN "display_only"
    ELSE IF save_only THEN "save_only"
    ELSE "save_and_display"

\* if fig is None / if interactive / elif save_only / elif display_only / else
branch(fig, save_only, display_only, interactive) ==
    IF fig.kind = "None" THEN "none"
    ELSE IF interactive THEN "interactive"
    ELSE IF save_only THEN "save_only"
    ELSE IF display_only THEN "display_only"
    ELSE "save_and_display"

\* A call that raised.
raises(p) == [p EXCEPT !.state = "raised"]

\* return value
returns(p, value) == [p EXCEPT !.state = "returned", !.ret = value]

\* fig.write_image(filename, format=format, engine='kaleido', ...)
write_image(p, filename, ok) ==
    IF ok THEN [p EXCEPT !.files = (filename :> "new") @@ p.files,
                         !.written = @ \cup {filename},
                         !.writes = @ + 1]
    ELSE raises(p)

\* img = webp.load_image(filename); display(img)
load_and_display(p, filename) ==
    IF p.state = "raised" THEN p
    ELSE IF filename \in DOMAIN p.files
    THEN returns([p EXCEPT !.read = @ \cup {filename},
                            !.shown = Append(@, <<"image", p.files[filename]>>)],
                  None)
    ELSE raises(p)

\* The body of show_plot; ok is whether an image can be written.
show_plot(p, ok) ==
    LET b == branch(p.fig, p.save_only, p.display_only, p.interactive)
    IN  IF b = "none"
        THEN returns([p EXCEPT !.out = Append(@, "Pass in a plotly figure as argument")],
                      None)
        ELSE IF b = "interactive"
        THEN returns([p EXCEPT !.shown = Append(@, <<"figure", p.fig.title>>)], None)
        ELSE IF ~p.fig.title.set
        THEN raises(p)
        ELSE LET filename == title_to_filename(p.fig.title.text, p.save_dir)
             IN  IF b = "save_only"
                 THEN LET w == write_image(p, filename, ok)
                      IN  IF w.state = "raised" THEN w ELSE returns(w, filename)
                 ELSE IF b = "display_only"
                 THEN load_and_display(p, filename)
                 ELSE load_and_display(write_image(p, filename, ok), filename)

PlotTitles == {<<"a", ":", "b">>, <<"c">>}

Figures ==
    {[kind |-> "None"]}
        \cup {[kind |-> "Figure", title |-> [set |-> TRUE, text |-> t]] : t \in PlotTitles}
        \cup {[kind |-> "Figure", title |-> [set |-> FALSE]]}

PlotDirs == {PLOTS, <<>>}

PlotFiles == {title_to_filename(t, d) : t \in PlotTitles, d \in PlotDirs}

InitPlot ==
    /\ \E fig \in Figures, so \in BOOLEAN, do \in BOOLEAN, ia \in {INTERACTIVE, TRUE},
          d \in PlotDirs, names \in SUBSET PlotFiles :
          plot = [state |-> "call", fig |-> fig, save_only |-> so, display_only |-> do,
                  interactive |-> ia, save_dir |-> d,
                  files |-> [n \in names |-> "old"], before |-> [n \in names |-> "old"],
                  written |-> {}, writes |-> 0, read |-> {}, shown |-> <<>>,
                  out |-> <<>>,
                  ret |-> None]
    /\ PlotOff

ShowPlot ==
    /\ plot.state = "call"
    /\ \E ok \in BOOLEAN : plot' = show_plot(plot, ok)
    /\ UNCHANGED <<db, gen, load, conv, agg, watch, setup>>

SpecPlot == InitPlot /\ [][ShowPlot]_vars

\* C18: show_plot with display_only true and interactive and save_only
\* false writes no file and changes none; when it returns it has read the
\* file at the path derived from the title, and only that one, and
\* displayed it.
C18_DisplayOnlyNeverWrites ==
    (plot.state # "call" /\ plot.display_only /\ ~plot.interactive /\ ~plot.save_only)
        => /\ plot.files = plot.before
           /\ plot.written = {}
           /\ (plot.state = "returned" /\ plot.fig.kind = "Figure") =>
                 LET f == title_to_filename(plot.fig.title.text, plot.save_dir)
                 IN  /\ f \in DOMAIN plot.before
                     /\ plot.read = {f}
                     /\ plot.shown = <<<<"image", plot.before[f]>>>>
           /\ plot.state = "raised" => plot.read = {} /\ plot.shown = <<>>

\* display_only showed the saved image of the figure.
C18_Witness ==
    /\ plot.state = "returned"
    /\ plot.fig.kind = "Figure"
    /\ plot.display_only /\ ~plot.interactive /\ ~plot.save_only
    /\ plot.shown = <<<<"image", "old">>>>
    /\ Cardinality(DOMAIN plot.files) = 2

\* C19: with a figure and interactive true, whatever save_only and
\* display_only are, no file is written or read, the figure is shown, and
\* the call returns None.
C19_InteractiveNoFiles ==
    (plot.state # "call" /\ plot.fig.kind = "Figure" /\ plot.interactive)
        => /\ plot.state = "returned"
           /\ plot.ret = None
           /\ plot.files = plot.before
           /\ plot.written = {}
           /\ plot.read = {}
           /\ plot.shown = <<<<"figure", plot.fig.title>>>>

\* Interactive with save_only and display_only both set.
C19_Witness ==
    /\ plot.state = "returned"
    /\ plot.fig.kind = "Figure"
    /\ plot.interactive /\ plot.save_only /\ plot.display_only
    /\ plot.shown # <<>>


\* The line an except handler of watch_orders prints for an error.
ErrorLine(e) ==
    <<IF e = "ConnectionFailure" THEN "Error connecting to MongoDB:"
      ELSE "An error occurred:", e>>

\* C21: once the stream (or opening it) has raised, watch_orders goes
\* through one except handler and returns; it has then printed the changes
\* delivered before the error and, last, one line for the error; the
\* stream is not open again, and no change to orders after the error is
\* delivered or printed.
C21_WatcherFailureIsTerminal ==
    watch.error # "none" =>
        /\ watch.state \in {"except", "returned"}
        /\ watch.state = "except" =>
              watch.printed = [k \in 1..Len(watch.delivered) |->
                                  <<"Change detected:", watch.delivered[k]>>]
        /\ watch.state = "returned" =>
              /\ ~watch.alive
              /\ watch.printed = [k \in 1..Len(watch.delivered) |->
                                     <<"Change detected:", watch.delivered[k]>>]
                                    \o <<ErrorLine(watch.error)>>

\* One change was printed, the stream raised, the handler printed and
\* returned, and orders changed twice since.
C21_Witness ==
    /\ watch.state = "returned"
    /\ watch.error = "OperationFailure"
    /\ watch.printed = <<<<"Change detected:", "insert">>,
                         <<"An error occurred:", "OperationFailure">>>>
    /\ Len(watch.missed) = 2


(***************************************************************************)
(* Properties of create_order: ids.                                        *)
(***************************************************************************)
\* The committed documents the current call of p wrote.
OrdersOf(p) == {o \in orders : o["_id"][1] = p /\ o["_id"][2] = hist[p].calls}

ItemsOf(p) == {i \in order_items : i["_id"][1] = p /\ i["_id"][2] = hist[p].calls}

\* C22: under any interleaving of concurrent create_order calls, with the
\* unique index on orders.order_id in place, no two documents of orders
\* share an order_id; of two calls that computed the same order_id at most
\* one has its order committed, and a call that ended without its order
\* committed has left no order item and no pending write.
C22_UniqueOrderIdUnderConcurrency ==
    /\ \A a, b \in orders : a.order_id = b.order_id => a = b
    /\ \A p, q \in Procs :
          (p # q /\ IsNum(loc[p].order_id) /\ loc[p].order_id = loc[q].order_id)
              => (OrdersOf(p) = {} \/ OrdersOf(q) = {})
    /\ \A p \in Procs :
          pc[p] = "done" =>
              /\ txn[p].orders = {} /\ txn[p].items = {}
              /\ OrdersOf(p) = {} => ItemsOf(p) = {}

\* Both calls computed the same order_id; one committed its order and an
\* item, the other had its order insert refused and was rolled back.
C22_Witness ==
    /\ pc[1] = "done" /\ pc[2] = "done"
    /\ IsNum(loc[1].order_id)
    /\ loc[1].order_id = loc[2].order_id
    /\ OrdersOf(1) # {} /\ ItemsOf(1) # {}
    /\ hist[2].ins_order = 1 /\ hist[2].aborted = 1
    /\ OrdersOf(2) = {} /\ ItemsOf(2) = {}

\* C23: in single-threaded use on a non-empty orders collection with
\* integer order_ids, a commit adds only an order_id strictly greater than
\* every order_id present before the call; the order insert of a sequential
\* call is never refused by the unique index on order_id; and after a call
\* that aborted, the next call computes the same order_id again.
C23_SequentialIdsIncrease ==
    [][/\ (orders' # orders /\ hist[1].pre_orders # {}
              /\ \A o \in hist[1].pre_orders : IsNum(o.order_id))
          => /\ orders = hist[1].pre_orders
             /\ \A new \in orders' \ orders :
                   /\ IsNum(new.order_id)
                   /\ \A o \in hist[1].pre_orders :
                         new.order_id[1] > o.order_id[1]
       /\ pc'[1] = "ins_order" => (orders_unique_index(order_doc(1)))'
       /\ (pc[1] = "done" /\ hist[1].aborted = 1 /\ IsNum(loc[1].order_id)
              /\ pc'[1] = "gen_order")
          => generate_id_from_field(aggregate_reads(orders', txn'[1].orders),
                                    "order_id").value = loc[1].order_id
      ]_vars

\* The second of two sequential calls has committed its order after the
\* first one committed its own: both ids exceed those of the fixture.
C23_Witness ==
    /\ pc[1] = "done" /\ hist[1].calls = 2 /\ hist[1].outcome = "returned"
    /\ \E a \in hist[1].pre_orders, b \in OrdersOf(1), f \in hist[1].pre_orders :
          /\ a["_id"][1] = 1 /\ f["_id"][1] = 0
          /\ f.order_id[1] < a.order_id[1]
          /\ a.order_id[1] < b.order_id[1]

\* C24: create_order cannot populate an empty collection.  A call started
\* on an empty orders collection computes the order_id None, its order is
\* refused by the orders validator, and orders and order_items stay as
\* they were.  A call with N >= 1 started on an empty order_items
\* collection computes the order_item_id None for its first item, that
\* item is refused by the order_items validator, and the call ends with
\* its transaction aborted, orders and order_items as they were and no
\* write pending.
C24_EmptyCollectionStaysEmpty ==
    \A p \in Procs :
        /\ (hist[p].calls >= 1 /\ hist[p].pre_orders = {}) =>
              /\ orders = {} /\ order_items = hist[p].pre_items
              /\ txn[p].orders = {} /\ txn[p].items = {}
              /\ pc[p] = "ins_order" =>
                    /\ loc[p].order_id = None
                    /\ ~orders_validator(order_doc(p))
              /\ pc[p] \in {"gen_order", "ins_order", "abort", "done"}
              /\ pc[p] = "done" => hist[p].aborted = 1
        /\ (hist[p].calls >= 1 /\ hist[p].pre_items = {} /\ NItems(p) >= 1) =>
              /\ order_items = {} /\ orders = hist[p].pre_orders
              /\ txn[p].items = {}
              /\ pc[p] = "ins_item" =>
                    /\ loc[p].i = 1
                    /\ loc[p].item_id = None
                    /\ ~order_items_validator(order_item_doc(p))
              /\ pc[p] # "commit"
              /\ pc[p] = "done" => hist[p].aborted = 1 /\ txn[p].orders = {}

\* orders held an order and order_items none: the call inserted its order,
\* had its first item refused, and ended with the order rolled back.
C24_Witness ==
    /\ pc[1] = "done"
    /\ hist[1].pre_orders # {} /\ hist[1].pre_items = {}
    /\ NItems(1) >= 1 /\ loc[1].product_orders[1].quantity = Num(2)
    /\ hist[1].ins_order = 1 /\ IsNum(loc[1].order_id)
    /\ hist[1].ins_item[1] = 1 /\ loc[1].item_id = None
    /\ hist[1].aborted = 1
    /\ orders = hist[1].pre_orders /\ order_items = {}

\* No document of the collection carries a value of the requested field.
NoCarrier ==
    \A d \in gen.before : gen.field \notin DOMAIN d \/ d[gen.field] = None

\* C25: generate_id_from_field returns the absent result exactly when the
\* collection has no documents; on a non-empty collection in which no
\* document carries the requested field it fails with an error, returning
\* neither the absent result nor an integer.
C25_AbsentOnlyWhenEmpty ==
    gen.state \in {"returned", "raised"} =>
        /\ (gen.state = "returned" /\ gen.value = None) => gen.before = {}
        /\ (gen.before # {} /\ NoCarrier) =>
              /\ gen.state = "raised"
              /\ gen.state # "returned"

\* A call for a field that none of the documents of a non-empty collection
\* carries: it raised.
C25_Witness ==
    /\ gen.state = "raised"
    /\ Cardinality(gen.before) >= 2
    /\ gen.field = "product_id"
    /\ \E d \in gen.before : "order_id" \in DOMAIN d /\ IsNum(d.order_id)


(***************************************************************************)
(* Properties of show_plot: the precedence of the modes.                   *)
(***************************************************************************)
\* What a finished call did to the files and the display.
Untouched == plot.files = plot.before /\ plot.written = {} /\ plot.writes = 0

\* C26: show_plot runs exactly one mode, chosen by a fixed precedence.
\* Without a figure it prints the notice, returns None and writes, reads
\* and displays nothing, whatever the flags.  With a figure, interactive
\* goes before save_only, save_only before display_only, display_only before
\* the default.  With save_only and display_only both true and interactive
\* false a call that returns has written the image once, at the path
\* derived from the title, has displayed nothing and returns that path.
\* In the default mode a call that returns has written the image once at
\* that path and displayed the file read back from the same path.
C26_ModePrecedence ==
    plot.state # "call" =>
        /\ plot.fig.kind = "None" =>
              /\ plot.state = "returned" /\ plot.ret = None
              /\ plot.out = <<"Pass in a plotly figure as argument">>
              /\ Untouched /\ plot.read = {} /\ plot.shown = <<>>
        /\ plot.fig.kind = "Figure" =>
              /\ plot.out = <<>>
              /\ plot.interactive =>
                    /\ Untouched /\ plot.read = {}
                    /\ plot.shown = <<<<"figure", plot.fig.title>>>>
              /\ (~plot.interactive /\ plot.save_only) =>
                    /\ plot.shown = <<>> /\ plot.read = {}
                    /\ plot.state = "returned" =>
                          LET f == title_to_filename(plot.fig.title.text, plot.save_dir)
                          IN  /\ plot.writes = 1 /\ plot.written = {f}
                              /\ plot.files = (f :> "new") @@ plot.before
                              /\ plot.ret = f
              /\ (~plot.interactive /\ ~plot.save_only /\ plot.display_only) =>
                    /\ Untouched
                    /\ plot.state = "returned" =>
                          /\ plot.ret = None
                          /\ plot.shown = <<<<"image", "old">>>>
              /\ (~plot.interactive /\ ~plot.save_only /\ ~plot.display_only) =>
                    /\ plot.state = "returned" =>
                          LET f == title_to_filename(plot.fig.title.text, plot.save_dir)
                          IN  /\ plot.writes = 1 /\ plot.written = {f}
                              /\ plot.files = (f :> "new") @@ plot.before
                              /\ plot.read = {f}
                              /\ plot.shown = <<<<"image", plot.files[f]>>>>
                              /\ plot.shown = <<<<"image", "new">>>>
                              /\ plot.ret = None
                    /\ plot.state = "raised" => plot.shown = <<>>

\* save_only and display_only both set, interactive off: the image was
\* written over an older file of the same name and its path returned.
C26_Witness ==
    /\ plot.state = "returned"
    /\ plot.fig.kind = "Figure"
    /\ plot.save_only /\ plot.display_only /\ ~plot.interactive
    /\ plot.ret # None
    /\ plot.ret \in DOMAIN plot.before
    /\ plot.files[plot.ret] = "new"
    /\ plot.writes = 1
    /\ plot.shown = <<>>
====
